---------------------------- MODULE Spec2Model ----------------------------
(***************************************************************************)
(* A state-machine model of the Simulation class of ParticleSolver         *)
(* (src/cpu/src/simulation.cpp): scene construction (init and the create*  *)
(* helpers), the per-tick pipeline (gather, predict, contact discovery,    *)
(* stabilization, solver pass, velocity recovery, teardown) and            *)
(* mousePressed.                                                           *)
(*                                                                         *)
(* Numbers.  The program computes with doubles; the model computes on a    *)
(* lattice.  Lengths are integers with PARTICLE_DIAM = 10 lattice units =  *)
(* one world unit, so a world length w is the integer 10*w and a velocity  *)
(* in world units per second is 10*v.  Seconds and the dimensionless       *)
(* quantities (unit vectors, friction coefficients, ALPHA, kernel weights) *)
(* are fixed-point with UNIT = 1.0.  Divisions truncate                    *)
(* toward zero.  EPSILON is below the lattice resolution: a comparison     *)
(* "d < PARTICLE_DIAM - EPSILON" on lattice values is "d < PARTICLE_DIAM". *)
(*                                                                         *)
(* Particle, Body, the constraint classes, the solvers and the enumeration *)
(* of the constraint groups are declared in headers that are not part of   *)
(* src/; they are modelled from the specification (sections 3, 4.1, 4.2,   *)
(* 4.3, 5) and marked so in the map.                                       *)
(***************************************************************************)
EXTENDS Integers, Sequences, FiniteSets, TLC

(***************************************************************************)
(* Build configuration and tuning constants (spec section 6).              *)
(***************************************************************************)
PARTICLE_RAD == 5
PARTICLE_DIAM == 2 * PARTICLE_RAD
WORLD == PARTICLE_DIAM
UNIT == 1000
SOLVER_ITERATIONS == 4
STABILIZATION_ITERATIONS == 2
\* ALPHA, the gas gravity scale, as ALPHA_MILLI / UNIT
ALPHA_MILLI == 500
\* smoothing radius of the density constraints, h = PARTICLE_DIAM * k
KERNEL_K == 3

\* enum ConstraintGroup.  Its declaration is not in src/.  The
\* specification names four groups (section 3) and has the loop of tick
\* (17), which runs over the enumeration from 0 to NUM_CONSTRAINT_GROUPS - 1,
\* visit CONTACT, then STANDARD, then SHAPE (section 5, step 5); the place of
\* STABILIZATION among them is not given.  A build is compiled with one
\* declaration: the variable ConstraintGroup holds the number it gives each
\* group, any of the declarations the specification allows.
VARIABLE ConstraintGroup

NUM_CONSTRAINT_GROUPS == 4

GroupNames == {"STABILIZATION", "CONTACT", "STANDARD", "SHAPE"}

\* the declaration in the order section 3 lists the groups
EnumerationsAsListed ==
    {[SHAPE |-> 0, STANDARD |-> 1, CONTACT |-> 2, STABILIZATION |-> 3]}

Enumerations ==
    {e \in [GroupNames -> 0..(NUM_CONSTRAINT_GROUPS - 1)] :
        /\ \A a, b \in GroupNames : a # b => e[a] # e[b]
        /\ e.CONTACT < e.STANDARD
        /\ e.STANDARD < e.SHAPE}

STABILIZATION == ConstraintGroup.STABILIZATION
CONTACT == ConstraintGroup.CONTACT
STANDARD == ConstraintGroup.STANDARD
SHAPE == ConstraintGroup.SHAPE

\* m_gravity = glm::dvec2(0,-9.8), in lattice units per second squared
GRAVITY_X == 0
GRAVITY_Y == -98
\* the factor of mousePressed, 7., in world units per second
MOUSE_IMPULSE == 7

(***************************************************************************)
(* Bounds of the model.                                                    *)
(***************************************************************************)
MaxTicks == 2
MaxClicks == 1
MaxCreates == 1
MaxInits == 1

(***************************************************************************)
(* Integer and vector arithmetic.                                          *)
(***************************************************************************)
\* An operator's argument is computed when it is first used.  A loop tests
\* Evaluated(acc) on its accumulator so that each iteration computes it,
\* rather than the last one computing the nest of all of them.
Evaluated(x) == x = x

Abs(a) == IF a < 0 THEN -a ELSE a

Min2(a, b) == IF a <= b THEN a ELSE b

Max2(a, b) == IF a >= b THEN a ELSE b

\* a / b for b > 0, truncated toward zero
TDiv(a, b) == IF a >= 0 THEN a \div b ELSE -((-a) \div b)

RECURSIVE ISqrtIter(_, _, _)
ISqrtIter(n, lo, hi) ==
    IF lo >= hi THEN lo
    ELSE LET mid == (lo + hi + 1) \div 2
         IN IF mid * mid <= n THEN ISqrtIter(n, mid, hi)
            ELSE ISqrtIter(n, lo, mid - 1)

\* floor of the square root of n >= 0
ISqrt(n) == ISqrtIter(n, 0, Min2(n, 46340))

VAdd(a, b) == <<a[1] + b[1], a[2] + b[2]>>

VSub(a, b) == <<a[1] - b[1], a[2] - b[2]>>

VScale(k, a) == <<k * a[1], k * a[2]>>

VDiv(a, k) == <<TDiv(a[1], k), TDiv(a[2], k)>>

VNeg(a) == <<-a[1], -a[2]>>

Dot(a, b) == a[1] * b[1] + a[2] * b[2]

Cross(a, b) == a[1] * b[2] - a[2] * b[1]

Len2(a) == Dot(a, a)

\* glm::length
VLen(a) == ISqrt(Len2(a))

\* glm::distance
Dist2(a, b) == Len2(VSub(a, b))

\* the IEEE not-a-number of a double, as a value no coordinate takes; a
\* vector is not a number when a component is
NaN == -2147483647

IsNaN(a) == a[1] = NaN \/ a[2] = NaN

\* glm::normalize: the unit vector of a in fixed point (UNIT = 1.0); short
\* vectors are scaled up before the square root is taken.  The zero vector
\* is divided by its length 0 and gives (NaN, NaN).
Normalize(a) ==
    IF IsNaN(a) \/ a = <<0, 0>> THEN <<NaN, NaN>>
    ELSE LET k == IF Len2(a) < 10000 THEN 100 ELSE 1
             l == VLen(VScale(k, a))
         IN <<TDiv(k * a[1] * UNIT, l), TDiv(k * a[2] * UNIT, l)>>

\* 0-based element access, as QList::at
At(s, i) == s[i + 1]


(***************************************************************************)
(* Particle (spec section 3).  imass is kept in tenths: IMASS_ONE is the   *)
(* inverse mass 1.0, so the presets' values 100, 1, .5, .2 and 0 are       *)
(* 1000, 10, 5, 2 and 0.  sFriction and kFriction are fixed point.         *)
(***************************************************************************)
IMASS_ONE == 10

\* new Particle(pos, imass, phase): at rest, in no body
Particle(pos, imass, ph) ==
    [id |-> 0, p |-> pos, ep |-> pos, v |-> <<0, 0>>, imass |-> imass, ph |-> ph,
     bod |-> -1, sFriction |-> 0, kFriction |-> 0, sm |-> UNIT]

\* the mass 1/imass of a movable particle, as a weight (exact for the
\* inverse masses the presets use)
MassW(imass) == (100 * IMASS_ONE) \div imass

\* Particle::guess (spec 4.1): p + dt * v; dt is in fixed point (UNIT = one
\* second)
Guess(q, dt) ==
    IF IsNaN(q.p) \/ IsNaN(q.v) THEN <<NaN, NaN>>
    ELSE VAdd(q.p, VDiv(VScale(dt, q.v), UNIT))

\* Particle::scaleMass (spec 4.1): recomputes sm; the policy is left open by
\* the specification and the model takes the constant scale 1.0
ScaleMass(q) == [q EXCEPT !.sm = UNIT]

\* Particle::confirmGuess (spec 4.1): sleep when ep is within sleepEps of p
\* (on the lattice: equal to p), else p <- ep; the test fails on a NaN
ConfirmGuess(q) ==
    IF ~IsNaN(q.ep) /\ q.ep = q.p THEN [q EXCEPT !.v = <<0, 0>>]
    ELSE [q EXCEPT !.p = q.ep]

(***************************************************************************)
(* Constraints.  Every constraint object is a record of one shape; id is   *)
(* the identity of the heap object.                                        *)
(***************************************************************************)
NoConstraint ==
    [kind |-> "none", id |-> 0, i |-> -1, j |-> -1, val |-> 0, xb |-> FALSE,
     lo |-> FALSE, stab |-> FALSE, body |-> -1, idx |-> <<>>, rest |-> 0,
     density |-> 0]

\* new RigidContactConstraint(i, j, &m_bodies)
RigidContactConstraint(id, i, j) ==
    [NoConstraint EXCEPT !.kind = "RigidContact", !.id = id, !.i = i, !.j = j]

\* new ContactConstraint(i, j)
ContactConstraint(id, i, j) ==
    [NoConstraint EXCEPT !.kind = "Contact", !.id = id, !.i = i, !.j = j]

\* new BoundaryConstraint(i, value, xBoundary, greater, stabile)
BoundaryConstraint(id, i, val, xb, lo, stab) ==
    [NoConstraint EXCEPT !.kind = "Boundary", !.id = id, !.i = i, !.val = val,
                         !.xb = xb, !.lo = lo, !.stab = stab]

\* new DistanceConstraint(i, j, &m_particles): the rest length is the
\* distance of the two particles when the constraint is made
DistanceConstraint(id, i, j, ps) ==
    [NoConstraint EXCEPT !.kind = "Distance", !.id = id, !.i = i, !.j = j,
                         !.rest = VLen(VSub(At(ps, i).p, At(ps, j).p))]

\* new TotalShapeConstraint(body)
TotalShapeConstraint(id, b) ==
    [NoConstraint EXCEPT !.kind = "TotalShape", !.id = id, !.body = b]

\* new TotalFluidConstraint(density, &indices)
TotalFluidConstraint(id, density, idx) ==
    [NoConstraint EXCEPT !.kind = "TotalFluid", !.id = id, !.density = density,
                         !.idx = idx]

\* new GasConstraint(density, &indices)
GasConstraint(id, density, idx) ==
    [NoConstraint EXCEPT !.kind = "Gas", !.id = id, !.density = density,
                         !.idx = idx]

\* SDFData(normal, distance)
SDFData(n, d) == [n |-> Normalize(n), d |-> d]

(***************************************************************************)
(* QHash<ConstraintGroup, QList<Constraint *> >: a function whose domain   *)
(* is the set of keys the hash holds.  operator[] on a key the hash does   *)
(* not hold inserts the key with an empty list.                            *)
(***************************************************************************)
HashTouch(h, g) ==
    IF g \in DOMAIN h THEN h
    ELSE [k \in (DOMAIN h) \cup {g} |-> IF k = g THEN <<>> ELSE h[k]]

HashAppend(h, g, c) ==
    LET t == HashTouch(h, g) IN [t EXCEPT ![g] = Append(t[g], c)]

HashGet(h, g) == IF g \in DOMAIN h THEN h[g] ELSE <<>>

EmptyHash == [k \in {} |-> <<>>]
(***************************************************************************)
(* The simulation's data as one record, for the operators that model the   *)
(* member functions: ps = m_particles, bodies = m_bodies,                  *)
(* gc = m_globalConstraints, xB, yB = m_xBoundaries, m_yBoundaries,        *)
(* grav = m_gravity, nextId = the next fresh heap identity, exited = the   *)
(* process has called exit(1).                                             *)
(***************************************************************************)
\* the vertices a caller allocates (new Particle) get fresh identities
WithIds(verts, first) ==
    [k \in 1..Len(verts) |-> [verts[k] EXCEPT !.id = first + k - 1]]

\* one particle's term of the centre of mass: <<m x, m y, m>>
ComTerm(pos, m) == <<m * pos[1], m * pos[2], m>>

RECURSIVE ComSum(_, _, _, _)
ComSum(ps, idx, useEstimates, k) ==
    IF k > Len(idx) THEN <<0, 0, 0>>
    ELSE LET Add(a, b) == <<a[1] + b[1], a[2] + b[2], a[3] + b[3]>>
         IN Add(ComTerm(IF useEstimates THEN ps[idx[k] + 1].ep
                        ELSE ps[idx[k] + 1].p,
                        MassW(ps[idx[k] + 1].imass)),
                ComSum(ps, idx, useEstimates, k + 1))

\* Body::updateCOM(&m_particles, useEstimates): the mass-weighted mean of
\* p, or of ep
UpdateCOM(ps, idx, useEstimates) ==
    LET Mean(s) == <<TDiv(s[1], s[3]), TDiv(s[2], s[3])>>
    IN Mean(ComSum(ps, idx, useEstimates, 1))

\* Body::computeRs(&m_particles): the offsets r_i = p_i - com
ComputeRs(ps, idx, com) == [k \in 1..Len(idx) |-> VSub(At(ps, idx[k]).p, com)]

RECURSIVE SumMassW(_, _)
SumMassW(verts, k) ==
    IF k > Len(verts) THEN 0 ELSE MassW(verts[k].imass) + SumMassW(verts, k + 1)

\* the first vertex of infinite mass, or 0
FirstImmovable(verts) ==
    IF \E k \in 1..Len(verts) : verts[k].imass = 0
    THEN CHOOSE k \in 1..Len(verts) :
            /\ verts[k].imass = 0
            /\ \A m \in 1..(k - 1) : verts[m].imass # 0
    ELSE 0

\* the body built with the positions of its vertices in the list handed in
\* for the indices of its particles
CreateRigidBodyOpNoOffset(S, verts, sdfData) ==
    IF Len(verts) <= 1 THEN [S EXCEPT !.exited = TRUE]
    ELSE
      LET bodyIdx == Len(S.bodies)
          bad == FirstImmovable(verts)
          n == IF bad = 0 THEN Len(verts) ELSE bad - 1
          added == [k \in 1..n |->
                      [verts[k] EXCEPT !.bod = bodyIdx, !.ph = "SOLID"]]
          ps2 == S.ps \o added
      IN IF bad # 0
         THEN [S EXCEPT !.ps = ps2, !.nextId = S.nextId + 1, !.exited = TRUE]
         ELSE
           LET idx == [k \in 1..n |-> k - 1]
               com == UpdateCOM(ps2, idx, FALSE)
               body == [id |-> S.nextId,
                        particles |-> idx,
                        sdf |-> [k \in 1..n |-> sdfData[k]],
                        totalMass |-> SumMassW(verts, 1),
                        com |-> com,
                        rs |-> ComputeRs(ps2, idx, com),
                        shape |-> TotalShapeConstraint(S.nextId + 1, bodyIdx)]
           IN [S EXCEPT !.ps = ps2,
                        !.bodies = Append(S.bodies, body),
                        !.nextId = S.nextId + 2]

\* Simulation::createRigidBody.  The loop appends each vertex before it
\* looks at the next one, so the vertices before one of infinite mass are in
\* m_particles when the process exits.
CreateRigidBodyOp(S, verts, sdfData) ==
    IF Len(verts) <= 1 THEN [S EXCEPT !.exited = TRUE]
    ELSE
      LET offset == Len(S.ps)
          bodyIdx == Len(S.bodies)
          bad == FirstImmovable(verts)
          n == IF bad = 0 THEN Len(verts) ELSE bad - 1
          added == [k \in 1..n |->
                      [verts[k] EXCEPT !.bod = bodyIdx, !.ph = "SOLID"]]
          ps2 == S.ps \o added
      IN IF bad # 0
         THEN [S EXCEPT !.ps = ps2, !.nextId = S.nextId + 1, !.exited = TRUE]
         ELSE
           LET idx == [k \in 1..n |-> k - 1 + offset]
               com == UpdateCOM(ps2, idx, FALSE)
               body == [id |-> S.nextId,
                        particles |-> idx,
                        sdf |-> [k \in 1..n |-> sdfData[k]],
                        totalMass |-> SumMassW(verts, 1),
                        com |-> com,
                        rs |-> ComputeRs(ps2, idx, com),
                        shape |-> TotalShapeConstraint(S.nextId + 1, bodyIdx)]
           IN [S EXCEPT !.ps = ps2,
                        !.bodies = Append(S.bodies, body),
                        !.nextId = S.nextId + 2]

\* the loop and the append without the test for a vertex of infinite mass
CreateDensityOpUnchecked(S, verts, density, tag, ph) ==
    LET added == [k \in 1..Len(verts) |->
                     [verts[k] EXCEPT !.ph = ph, !.bod = tag]]
        indices == [k \in 1..Len(verts) |-> Len(S.ps) + k - 1]
    IN [S EXCEPT !.ps = S.ps \o added,
                 !.gc = HashAppend(S.gc, STANDARD,
                                   IF ph = "GAS"
                                   THEN GasConstraint(S.nextId, density,
                                                      indices)
                                   ELSE TotalFluidConstraint(S.nextId,
                                                             density,
                                                             indices)),
                 !.nextId = S.nextId + 1]

\* the loop and the append that createGas and createFluid share
CreateDensityOp(S, verts, density, tag, ph) ==
    LET offset == Len(S.ps)
        bad == FirstImmovable(verts)
        n == IF bad = 0 THEN Len(verts) ELSE bad - 1
        added == [k \in 1..n |-> [verts[k] EXCEPT !.ph = ph, !.bod = tag]]
        indices == [k \in 1..n |-> offset + k - 1]
    IN IF bad # 0
       THEN [S EXCEPT !.ps = S.ps \o added, !.exited = TRUE]
       ELSE [S EXCEPT !.ps = S.ps \o added,
                      !.gc = HashAppend(S.gc, STANDARD,
                                        IF ph = "GAS"
                                        THEN GasConstraint(S.nextId, density,
                                                           indices)
                                        ELSE TotalFluidConstraint(S.nextId,
                                                                  density,
                                                                  indices)),
                      !.nextId = S.nextId + 1]

\* Simulation::createGas; tag is the value of 100 * frand()
CreateGasOp(S, verts, density, tag) ==
    CreateDensityOp(S, verts, density, tag, "GAS")

\* Simulation::createFluid; tag is the value of 100 * frand()
CreateFluidOp(S, verts, density, tag) ==
    CreateDensityOp(S, verts, density, tag, "FLUID")

\* clear, lines 38-41: removeAll(c) on the list of every group the hash
\* holds
RemoveAll(gc, id) ==
    [k \in DOMAIN gc |->
        IF k \in 0..(NUM_CONSTRAINT_GROUPS - 1)
        THEN SelectSeq(gc[k], LAMBDA c : c.id # id)
        ELSE gc[k]]

\* the loop over a group with the constraint deleted but left in the lists
RECURSIVE ClearGroupKeep(_, _, _, _)
ClearGroupKeep(gc, group, j, freed) ==
    IF j < 1 THEN [gc |-> gc, freed |-> freed]
    ELSE ClearGroupKeep(gc, group, j - 1, Append(freed, group[j].id))

\* clear, lines 36-44: the loop over the copy of one group's list, from its
\* last constraint to its first; each is removed from every list and deleted
RECURSIVE ClearGroup(_, _, _, _)
ClearGroup(gc, group, j, freed) ==
    IF j < 1 THEN [gc |-> gc, freed |-> freed]
    ELSE ClearGroup(RemoveAll(gc, group[j].id), group, j - 1,
                    Append(freed, group[j].id))

\* clear, lines 33-46: the loop over the groups; freed lists the identities
\* of the constraints in the order of their deletion
RECURSIVE ClearGlobals(_, _, _)
ClearGlobals(gc, i, freed) ==
    IF i >= NUM_CONSTRAINT_GROUPS THEN [gc |-> gc, freed |-> freed]
    ELSE IF i \notin DOMAIN gc THEN ClearGlobals(gc, i + 1, freed)
    ELSE LET R == ClearGroup(gc, gc[i], Len(gc[i]), freed)
         IN IF Evaluated(R) THEN ClearGlobals(R.gc, i + 1, R.freed)
            ELSE R

\* clear, lines 23-32: m_particles and m_bodies emptied from the last element
\* to the first, each element deleted
RECURSIVE DeleteBackward(_, _)
DeleteBackward(list, k) ==
    IF k < 1 THEN <<>> ELSE <<list[k].id>> \o DeleteBackward(list, k - 1)

\* the objects Simulation::clear deletes, in the order of their deletion
ClearFreed(S) ==
    DeleteBackward(S.ps, Len(S.ps))
    \o DeleteBackward(S.bodies, Len(S.bodies))
    \o ClearGlobals(S.gc, 0, <<>>).freed

\* Simulation::clear: no particle, no body, every group list emptied (the
\* keys of m_globalConstraints stay)
ClearOp(S) ==
    [S EXCEPT !.ps = <<>>, !.bodies = <<>>,
              !.gc = ClearGlobals(S.gc, 0, <<>>).gc]
(***************************************************************************)
(* The scene presets.  Their loops are the presets' loops with the loop    *)
(* bounds scaled down by SceneSize; positions, masses, velocities and      *)
(* friction coefficients are the presets' values on the lattice.  frand()  *)
(* is an input: the jitter of the fluid presets is taken at frand() = .5   *)
(* (no jitter) and the group tags are the parameter tags.                  *)
(***************************************************************************)
SceneSize == 1

Tags == {0, 57}

Moving(q, v) == [q EXCEPT !.v = v]

Friction(q, s, k) == [q EXCEPT !.sFriction = s, !.kFriction = k]

\* PARTICLE_RAD * sqrt(2)
RadRoot2 == ISqrt(2 * PARTICLE_RAD * PARTICLE_RAD)

\* the SDF data of a box of dimx columns and 2 rows: corner pairs at both
\* ends, (0,-1) and (0,1) in between; d is the corners' distance
BoxData(dimx, d) ==
    [k \in 1..(2 * dimx) |->
        LET x == (k - 1) \div 2
            y == IF (k - 1) % 2 = 0 THEN -1 ELSE 1
        IN IF x = 0 THEN SDFData(<<-1, y>>, d)
           ELSE IF x = dimx - 1 THEN SDFData(<<1, y>>, d)
           ELSE SDFData(<<0, y>>, PARTICLE_RAD)]

\* the vertices of a box of dimx columns and dimy rows, column by column
BoxVerts(dimx, dimy, x0, y0, imass) ==
    [k \in 1..(dimx * dimy) |->
        LET x == (k - 1) \div dimy
            y == (k - 1) % dimy
        IN Particle(<<x0 + PARTICLE_DIAM * x, y0 + PARTICLE_DIAM * y>>,
                    imass, "SOLID")]

MapSeq2(s, v, sf, kf) ==
    [k \in 1..Len(s) |-> Friction(Moving(s[k], v), sf, kf)]

\* createRigidBody on vertices the preset has just allocated
NewBody(S, verts, data) ==
    CreateRigidBodyOp([S EXCEPT !.nextId = S.nextId + Len(verts)],
                      WithIds(verts, S.nextId), data)

NewFluid(S, verts, density, tag) ==
    CreateFluidOp([S EXCEPT !.nextId = S.nextId + Len(verts)],
                  WithIds(verts, S.nextId), density, tag)

NewGas(S, verts, density, tag) ==
    CreateGasOp([S EXCEPT !.nextId = S.nextId + Len(verts)],
                WithIds(verts, S.nextId), density, tag)

\* m_particles.append(new Particle(...))
AppendParticle(S, q) ==
    [S EXCEPT !.ps = Append(S.ps, [q EXCEPT !.id = S.nextId]),
              !.nextId = S.nextId + 1]

\* m_globalConstraints[STANDARD].append(new DistanceConstraint(i, j, ..))
AppendDistance(S, i, j) ==
    [S EXCEPT !.gc = HashAppend(S.gc, STANDARD,
                                DistanceConstraint(S.nextId, i, j, S.ps)),
              !.nextId = S.nextId + 1]

\* Simulation::initFriction
InitFriction(S) ==
    LET S1 == [S EXCEPT !.xB = <<-20 * WORLD, 20 * WORLD>>,
                        !.yB = <<0, 1000000 * WORLD>>]
        verts == MapSeq2(BoxVerts(3, 2, -PARTICLE_DIAM, 3 * PARTICLE_DIAM,
                                  IMASS_ONE),
                         <<5 * WORLD, 0>>, 100, 10)
    IN NewBody(S1, verts, BoxData(3, RadRoot2))

\* Simulation::initGranular: the grid is (2*SceneSize+1) columns of
\* (SceneSize+1) rows instead of 21 columns of 40 rows
RECURSIVE GranularGrid(_, _, _)
GranularGrid(S, i, j) ==
    IF i > SceneSize THEN S
    ELSE IF j > SceneSize THEN GranularGrid(S, i + 1, 0)
    ELSE GranularGrid(
            AppendParticle(S,
                Friction(Particle(<<i * PARTICLE_DIAM,
                                    j * PARTICLE_DIAM + PARTICLE_RAD + S.yB[1]>>,
                                  IMASS_ONE, "SOLID"), 100, 20)),
            i, j + 1)

InitGranular(S) ==
    LET S1 == [S EXCEPT !.xB = <<-100 * WORLD, 100 * WORLD>>,
                        !.yB = <<-5 * WORLD, 1000 * WORLD>>,
                        !.grav = <<GRAVITY_X, GRAVITY_Y>>]
        S2 == GranularGrid(S1, -SceneSize, 0)
        jerk == Moving(Particle(<<-55, 4 * WORLD>>, 100 * IMASS_ONE, "SOLID"),
                       <<10 * WORLD, 0>>)
    IN AppendParticle(S2, jerk)

\* Simulation::initBoxes: one column of SceneSize+1 boxes instead of five
\* columns of 8 boxes
RECURSIVE BoxColumn(_, _, _)
BoxColumn(S, j, i) ==
    IF i < 0 \/ S.exited THEN S
    ELSE BoxColumn(
            NewBody(S, BoxVerts(3, 2, j * 4 * WORLD - PARTICLE_DIAM,
                                ((2 * i + 1) * 2 + 1) * PARTICLE_DIAM,
                                IMASS_ONE),
                    BoxData(3, RadRoot2)),
            j, i - 1)

InitBoxes(S) ==
    LET S1 == [S EXCEPT !.xB = <<-20 * WORLD, 20 * WORLD>>,
                        !.yB = <<0, 1000000 * WORLD>>]
    IN BoxColumn(S1, 0, SceneSize)

\* initWall, the loop over i for column j: bricks of dim = (6,2) particles,
\* from the top brick down
RECURSIVE WallColumn(_, _, _)
WallColumn(S, j, i) ==
    IF i < 0 \/ S.exited THEN S
    ELSE LET num == IF i % 2 = 0 THEN 3 ELSE -1
             x0 == j * ((6 * WORLD) \div 2) - num * PARTICLE_RAD
             y0 == (i * 2) * PARTICLE_DIAM + PARTICLE_RAD
             verts == MapSeq2(BoxVerts(6, 2, x0, y0, IMASS_ONE),
                              <<0, 0>>, UNIT, 90)
         IN WallColumn(NewBody(S, verts, BoxData(6, RadRoot2)), j, i - 1)

\* initWall, the loop over j from -width to width
RECURSIVE WallColumns(_, _, _)
WallColumns(S, j, width) ==
    IF j > width \/ S.exited THEN S
    ELSE WallColumns(WallColumn(S, j, SceneSize), j + 1, width)

\* Simulation::initWall with height = SceneSize + 1 instead of 5 and
\* width = 2 * (SceneSize \div 4) instead of 2: the scene of the code at
\* SceneSize = 4, a single column of bricks below that
InitWall(S) ==
    LET S1 == [S EXCEPT !.xB = <<-20 * WORLD, 20 * WORLD>>,
                        !.yB = <<0, 1000000 * WORLD>>]
        width == 2 * (SceneSize \div 4)
    IN WallColumns(S1, -width, width)

\* Simulation::initPendulum with chainLength = SceneSize instead of 3
RECURSIVE PendulumChain(_, _, _)
PendulumChain(S, chainLength, i) ==
    IF i < 0 \/ S.exited THEN S
    ELSE LET verts == [j \in 1..6 |->
                          Particle(<<(((j - 1) \div 2) - 1) * PARTICLE_DIAM,
                                     ((i + 1) * 3 + ((j - 1) % 2))
                                        * PARTICLE_DIAM + 2 * WORLD>>,
                                   IMASS_ONE, "SOLID")]
             S1 == NewBody(S, verts, BoxData(3, PARTICLE_RAD))
             basePrev == 1 + (chainLength - i - 1) * 6
             baseCur == basePrev + 6
             S2 == IF i < chainLength /\ ~S1.exited
                   THEN AppendDistance(
                            AppendDistance(S1, baseCur + 1, basePrev),
                            baseCur + 5, basePrev + 4)
                   ELSE S1
         IN PendulumChain(S2, chainLength, i - 1)

InitPendulum(S) ==
    LET S1 == [S EXCEPT !.xB = <<-10 * WORLD, 10 * WORLD>>,
                        !.yB = <<0, 1000000 * WORLD>>]
        S2 == AppendParticle(S1,
                 Particle(<<0, (SceneSize * 3 + 6) * PARTICLE_DIAM + 2 * WORLD>>,
                          0, "SOLID"))
        S3 == PendulumChain(S2, SceneSize, SceneSize)
    IN IF S3.exited THEN S3 ELSE AppendDistance(S3, 0, 4)

\* the particles of one fluid block: SceneSize columns of SceneSize+1 rows
\* from (x0, y0), delta = .7 apart
FluidBlock(x0, y0) ==
    [k \in 1..(SceneSize * (SceneSize + 1)) |->
        LET x == (k - 1) \div (SceneSize + 1)
            y == (k - 1) % (SceneSize + 1)
        IN Particle(<<x0 + 7 * x, y0 + 7 * y>>, IMASS_ONE, "SOLID")]

\* Simulation::initFluid (scale = 4, num = 2)
InitFluid(S, tags) ==
    LET S1 == [S EXCEPT !.grav = <<GRAVITY_X, GRAVITY_Y>>,
                        !.xB = <<-8 * WORLD, 8 * WORLD>>,
                        !.yB = <<-8 * WORLD, 40 * WORLD>>]
        S2 == NewFluid(S1, FluidBlock(-8 * WORLD, -8 * WORLD), 1000, tags[1])
    IN NewFluid(S2, FluidBlock(0, -8 * WORLD), 2500, tags[2])

\* Simulation::initFluidSolid (scale = 5, num = 1): the fluid block, then
\* the two boxes of dim = (5,2) particles, 3 units left and right of the
\* middle
InitFluidSolid(S, tags) ==
    LET S1 == [S EXCEPT !.grav = <<GRAVITY_X, GRAVITY_Y>>,
                        !.xB = <<-10 * WORLD, 10 * WORLD>>,
                        !.yB = <<-10 * WORLD, 50 * WORLD>>]
        S2 == NewFluid(S1, FluidBlock(-10 * WORLD, -10 * WORLD), 1750, tags[1])
        S3 == NewBody(S2, BoxVerts(5, 2, -2 * PARTICLE_DIAM - 3 * WORLD,
                                   15 * WORLD + 3 * PARTICLE_DIAM, 5),
                      BoxData(5, RadRoot2))
    IN NewBody(S3, BoxVerts(5, 2, -2 * PARTICLE_DIAM + 3 * WORLD,
                            15 * WORLD + 3 * PARTICLE_DIAM, 2),
               BoxData(5, RadRoot2))

\* Simulation::initGas (scale = 2 for the gases, 3 for the fluids)
InitGas(S, tags) ==
    LET S1 == [S EXCEPT !.grav = <<GRAVITY_X, GRAVITY_Y>>,
                        !.xB = <<-4 * WORLD, 4 * WORLD>>,
                        !.yB = <<-4 * WORLD, 20 * WORLD>>]
        S2 == NewGas(S1, FluidBlock(-4 * WORLD, -4 * WORLD), 750, tags[1])
        S3 == NewGas(S2, FluidBlock(0, -4 * WORLD), 3750, tags[2])
        S4 == NewFluid(S3, FluidBlock(-6 * WORLD, -6 * WORLD + 10 * WORLD),
                       4750, tags[3])
    IN NewFluid(S4, FluidBlock(0, -6 * WORLD + 10 * WORLD), 5500, tags[4])

SceneTypes ==
    {"FRICTION_TEST", "GRANULAR_TEST", "STACKS_TEST", "WALL_TEST",
     "PENDULUM_TEST", "FLUID_TEST", "FLUID_SOLID_TEST", "GAS_TEST"}

\* Simulation::init: clear, the default gravity, the preset
InitOp(S, type, tags) ==
    LET S1 == [ClearOp(S) EXCEPT !.grav = <<GRAVITY_X, GRAVITY_Y>>]
    IN CASE type = "FRICTION_TEST" -> InitFriction(S1)
         [] type = "GRANULAR_TEST" -> InitGranular(S1)
         [] type = "STACKS_TEST" -> InitBoxes(S1)
         [] type = "WALL_TEST" -> InitWall(S1)
         [] type = "PENDULUM_TEST" -> InitPendulum(S1)
         [] type = "FLUID_TEST" -> InitFluid(S1, tags)
         [] type = "FLUID_SOLID_TEST" -> InitFluidSolid(S1, tags)
         [] type = "GAS_TEST" -> InitGas(S1, tags)
         [] OTHER -> InitBoxes(S1)
(***************************************************************************)
(* Constraint projection (spec section 4.2).  A projection takes the       *)
(* particle list to the particle list with ep (and, when stabile, p) of    *)
(* the referenced particles moved.  A particle of imass 0 receives no      *)
(* displacement; a zero-length direction yields a zero correction          *)
(* (section 7).                                                            *)
(***************************************************************************)
\* particle q moved by d: ep always, p as well in a stabilization projection
Moved(q, d, stabile) ==
    [q EXCEPT !.ep = VAdd(@, d), !.p = IF stabile THEN VAdd(@, d) ELSE @]

\* move particle i by d
Displace(ps, i, d, stabile) ==
    IF ps[i + 1].imass = 0 THEN ps
    ELSE [ps EXCEPT ![i + 1] = Moved(@, d, stabile)]

\* the weight of a particle in a contact: imass * sm
ContactWeight(q) == TDiv(q.imass * q.sm, UNIT)

\* the length of d in hundredths of a lattice unit
Len100(d) ==
    IF Len2(d) < 200000 THEN ISqrt(10000 * Len2(d)) ELSE 100 * VLen(d)

\* the coordinate at which a particle touches the boundary from inside
BoundaryTarget(c) ==
    IF c.lo THEN c.val + PARTICLE_RAD ELSE c.val - PARTICLE_RAD

\* the coordinate x is on the outer side of it
BoundaryCrossed(c, x) ==
    IF c.lo THEN x < BoundaryTarget(c) ELSE x > BoundaryTarget(c)

\* particle q put at coordinate t of axis ax
OnBoundary(q, ax, t, stabile) ==
    [q EXCEPT !.ep[ax] = t, !.p[ax] = IF stabile THEN t ELSE @]

\* BoundaryConstraint::project: out of the half-plane by PARTICLE_RAD
BoundaryProject(c, ps, stabile) ==
    LET ax == IF c.xb THEN 1 ELSE 2
    IN IF ps[c.i + 1].imass = 0 \/ ~BoundaryCrossed(c, ps[c.i + 1].ep[ax])
       THEN ps
       ELSE [ps EXCEPT ![c.i + 1] =
                OnBoundary(@, ax, BoundaryTarget(c), stabile)]

\* push i and j apart along the unit vector n (toward i) by mag100
\* hundredths, split in proportion to the weights wi and wj
PushApart(ps, i, j, n, mag100, wi, wj, stabile) ==
    IF wi + wj = 0 THEN ps
    ELSE Displace(Displace(ps, i,
                           VDiv(VScale(TDiv(mag100 * wi, wi + wj), n),
                                100 * UNIT),
                           stabile),
                  j, VDiv(VScale(-TDiv(mag100 * wj, wi + wj), n), 100 * UNIT),
                  stabile)

\* ep_i - ep_j of the constraint's pair
PairOffset(c, ps) == VSub(ps[c.i + 1].ep, ps[c.j + 1].ep)

\* the pair is apart, or in one place (no direction to push along)
NoOverlap(d) == Len2(d) >= PARTICLE_DIAM * PARTICLE_DIAM \/ Len2(d) = 0

\* ContactConstraint::project: ||ep_i - ep_j|| >= PARTICLE_DIAM, no friction
ContactProject(c, ps, stabile) ==
    LET Push(d) ==
            IF NoOverlap(d) THEN ps
            ELSE PushApart(ps, c.i, c.j, Normalize(d),
                           100 * PARTICLE_DIAM - Len100(d),
                           ContactWeight(ps[c.i + 1]),
                           ContactWeight(ps[c.j + 1]), stabile)
    IN Push(PairOffset(c, ps))

\* the position of particle i in the index list of body b, or 0
MemberPos(b, i) ==
    IF \E k \in 1..Len(b.particles) : b.particles[k] = i
    THEN CHOOSE k \in 1..Len(b.particles) : b.particles[k] = i
    ELSE 0

\* the SDF data of a particle that belongs to no body: d = -1
NoSdf == [n |-> <<0, 0>>, d |-> -1]

\* the SDF data at position k of body b
SdfAt(b, k) == IF k = 0 THEN NoSdf ELSE b.sdf[k]

\* the SDF data of particle i in its body
SdfOf(q, i, bodies) ==
    IF q.bod >= 0 /\ q.bod < Len(bodies)
    THEN SdfAt(bodies[q.bod + 1], MemberPos(bodies[q.bod + 1], i))
    ELSE NoSdf

\* the normal of the particle of smaller SDF distance when both belong to
\* bodies, else the pair direction
PickNormal(si, sj, pairDir) ==
    IF si.d >= 0 /\ sj.d >= 0
    THEN IF si.d <= sj.d THEN si.n ELSE VNeg(sj.n)
    ELSE pairDir

\* the contact normal, pointing toward i
ContactNormal(qi, qj, i, j, bodies) ==
    PickNormal(SdfOf(qi, i, bodies), SdfOf(qj, j, bodies),
               Normalize(VSub(qi.ep, qj.ep)))

\* the displacement of i in this tick relative to that of j
RelativeDisplacement(qi, qj) == VSub(VSub(qi.ep, qi.p), VSub(qj.ep, qj.p))

\* Coulomb's rule on the tangential displacement dxt of length lt against
\* the normal displacement of length ln (both in hundredths): all of it
\* (static), or the part mu_k * ln of it
FrictionCorrection(dxt, lt, ln, mus, muk) ==
    IF lt * UNIT <= mus * ln THEN dxt
    ELSE IF lt = 0 THEN <<0, 0>>
    ELSE VDiv(VScale(Min2(TDiv(muk * ln, lt), UNIT), dxt), UNIT)

\* the correction for the relative displacement dx with normal part dn
FrictionOf(dx, dn, n, mus, muk) ==
    LET Tangent(dxt) ==
            FrictionCorrection(dxt, Len100(dxt), 100 * Abs(dn), mus, muk)
    IN Tangent(VSub(dx, VDiv(VScale(dn, n), UNIT)))

\* the correction corr split over i and j by their weights
FrictionSplit(ps, i, j, corr, wi, wj, stabile) ==
    IF wi + wj = 0 THEN ps
    ELSE Displace(Displace(ps, i, VDiv(VScale(-wi, corr), wi + wj), stabile),
                  j, VDiv(VScale(wj, corr), wi + wj), stabile)

\* Coulomb friction after the normal projection
FrictionProject(ps, i, j, n, stabile) ==
    LET Corr(dx) ==
            FrictionOf(dx, TDiv(Dot(dx, n), UNIT), n,
                       Max2(ps[i + 1].sFriction, ps[j + 1].sFriction),
                       Max2(ps[i + 1].kFriction, ps[j + 1].kFriction))
    IN FrictionSplit(ps, i, j,
                     Corr(RelativeDisplacement(ps[i + 1], ps[j + 1])),
                     ContactWeight(ps[i + 1]), ContactWeight(ps[j + 1]),
                     stabile)

\* RigidContactConstraint::project: non-penetration, then friction
RigidContactProject(c, ps, bodies, stabile) ==
    LET Push(d, n) ==
            FrictionProject(
                PushApart(ps, c.i, c.j, n, 100 * PARTICLE_DIAM - Len100(d),
                          ContactWeight(ps[c.i + 1]),
                          ContactWeight(ps[c.j + 1]), stabile),
                c.i, c.j, n, stabile)
        Test(d) ==
            IF NoOverlap(d) THEN ps
            ELSE Push(d, ContactNormal(ps[c.i + 1], ps[c.j + 1], c.i, c.j,
                                       bodies))
    IN Test(PairOffset(c, ps))

\* DistanceConstraint::project: ||ep_i - ep_j|| = rest, both ways
DistanceProject(c, ps, stabile) ==
    LET Pull(d) ==
            IF Len2(d) = 0 THEN ps
            ELSE PushApart(ps, c.i, c.j, Normalize(d),
                           100 * c.rest - Len100(d),
                           ps[c.i + 1].imass, ps[c.j + 1].imass, stabile)
    IN Pull(PairOffset(c, ps))

\* one member's term of the covariance A = sum m_i (ep_i - com) r_i^T, as
\* <<A11 + A22, A21 - A12>>
CovarianceTerm(q, r, m) == <<m * Dot(q, r), m * Cross(r, q)>>

RECURSIVE CovarianceSum(_, _, _, _)
CovarianceSum(ps, b, com, k) ==
    IF k > Len(b.particles) THEN <<0, 0>>
    ELSE VAdd(CovarianceTerm(VSub(ps[b.particles[k] + 1].ep, com), b.rs[k],
                             MassW(ps[b.particles[k] + 1].imass)),
              CovarianceSum(ps, b, com, k + 1))

\* <<cos, sin>> of atan2(ab[2], ab[1]) in fixed point, <<0, 0>> when the
\* matrix is degenerate; ab is scaled down before the root is taken
Direction(ab) ==
    LET CosSin(small) ==
            IF Len2(small) = 0 THEN <<0, 0>>
            ELSE VDiv(VScale(UNIT, small), VLen(small))
    IN CosSin(VDiv(ab, (Max2(Abs(ab[1]), Abs(ab[2])) \div 10000) + 1))

\* the rotation of the covariance in closed form:
\* theta = atan2(A21 - A12, A11 + A22)
ShapeRotation(ps, b, com) == Direction(CovarianceSum(ps, b, com, 1))

\* R r for the rotation cs = <<cos, sin>>
Rotate(cs, r) ==
    <<TDiv(cs[1] * r[1] - cs[2] * r[2], UNIT),
      TDiv(cs[2] * r[1] + cs[1] * r[2], UNIT)>>

\* particle q of no infinite mass put at target
ShapeTarget(q, target) ==
    IF q.imass = 0 THEN q ELSE [q EXCEPT !.ep = target]

RECURSIVE ShapeMove(_, _, _, _, _)
ShapeMove(ps, b, com, cs, k) ==
    IF k > Len(b.particles) THEN ps
    ELSE ShapeMove([ps EXCEPT ![b.particles[k] + 1] =
                       ShapeTarget(@, VAdd(com, Rotate(cs, b.rs[k])))],
                   b, com, cs, k + 1)

\* TotalShapeConstraint::project: shape matching; every member goes to
\* com + R r_i, and the body's centre of mass becomes the current one
TotalShapeProject(c, T) ==
    LET Apply(b, com, cs) ==
            IF cs = <<0, 0>> THEN T
            ELSE [T EXCEPT !.ps = ShapeMove(@, b, com, cs, 1),
                           !.bodies[c.body + 1].com = com]
        Match(b, com) == Apply(b, com, ShapeRotation(T.ps, b, com))
    IN IF Len(T.bodies[c.body + 1].particles) = 0 THEN T
       ELSE Match(T.bodies[c.body + 1],
                  UpdateCOM(T.ps, T.bodies[c.body + 1].particles, TRUE))

\* the smoothing radius h of the density constraints
KernelH == KERNEL_K * PARTICLE_DIAM

\* q^3 for the fixed-point q
Cube(q) == (q * q * q) \div (UNIT * UNIT)

\* the poly6 kernel (h^2 - r^2)^3, normalised to W(0) = 1.0
Poly6(r2) ==
    IF r2 >= KernelH * KernelH THEN 0
    ELSE Cube(((KernelH * KernelH - r2) * UNIT) \div (KernelH * KernelH))

\* q^2 for the fixed-point q
Square(q) == (q * q) \div UNIT

\* the spiky kernel's gradient magnitude (h - r)^2, normalised to 1.0 at 0
SpikyGrad(d) ==
    IF Len2(d) >= KernelH * KernelH THEN 0
    ELSE Square(((KernelH - VLen(d)) * UNIT) \div KernelH)

\* a neighbour at squared distance r2: <<its poly6 weight, 1>>
DensityTerm(r2) ==
    IF r2 < KernelH * KernelH THEN <<Poly6(r2), 1>> ELSE <<0, 0>>

\* <<rho, number of neighbours>> at position ei over the members from m on
RECURSIVE DensitySum(_, _, _, _)
DensitySum(ps, c, ei, m) ==
    IF m > Len(c.idx) THEN <<0, 0>>
    ELSE VAdd(DensityTerm(Dist2(ei, ps[c.idx[m] + 1].ep)),
              DensitySum(ps, c, ei, m + 1))

\* lambda_i = -C_i / (sum ||grad C_i||^2 + eps) with C_i = rho_i/rho_0 - 1;
\* the gradient sum is taken as the number of neighbours, eps as 1
DensityLambda(ps, c, k) ==
    LET Lambda(s) == TDiv(-(TDiv(s[1] * UNIT, c.density) - UNIT), s[2])
    IN Lambda(DensitySum(ps, c, ps[c.idx[k] + 1].ep, 1))

\* the pull of a neighbour at offset d: the spiky gradient along d, weighted
\* by the two multipliers
DeltaTerm(d, lamk, lamm) ==
    IF Len2(d) = 0 \/ Len2(d) >= KernelH * KernelH THEN <<0, 0>>
    ELSE VDiv(VScale(TDiv((lamk + lamm) * SpikyGrad(d), UNIT), Normalize(d)),
              UNIT)

RECURSIVE DeltaSum(_, _, _, _, _)
DeltaSum(ps, c, lam, k, m) ==
    IF m > Len(c.idx) THEN <<0, 0>>
    ELSE VAdd(IF m = k THEN <<0, 0>>
              ELSE DeltaTerm(VSub(ps[c.idx[k] + 1].ep, ps[c.idx[m] + 1].ep),
                             lam[k], lam[m]),
              DeltaSum(ps, c, lam, k, m + 1))

\* the displacement of member k: the lambda-weighted spiky gradients of
\* its neighbours
DensityDelta(ps, c, lam, k) ==
    VDiv(VScale(-PARTICLE_RAD, DeltaSum(ps, c, lam, k, 1)), UNIT)

RECURSIVE DensityMove(_, _, _, _, _)
DensityMove(ps, snapshot, c, lam, k) ==
    IF k > Len(c.idx) THEN ps
    ELSE DensityMove(Displace(ps, c.idx[k],
                              DensityDelta(snapshot, c, lam, k), FALSE),
                     snapshot, c, lam, k + 1)

\* TotalFluidConstraint::project and GasConstraint::project: one density
\* step over the members
DensityProject(c, ps) ==
    DensityMove(ps, ps, c, [k \in 1..Len(c.idx) |-> DensityLambda(ps, c, k)],
                1)

\* the particles constraint c reads and writes
Members(c, T) ==
    CASE c.kind = "Boundary" -> <<c.i>>
      [] c.kind \in {"Contact", "RigidContact", "Distance"} -> <<c.i, c.j>>
      [] c.kind = "TotalShape" -> T.bodies[c.body + 1].particles
      [] c.kind \in {"TotalFluid", "Gas"} -> c.idx
      [] OTHER -> << >>

\* the projection of a constraint that reads a NaN position: the tests of
\* the contacts and the boundaries fail and nothing moves; the equality
\* constraints compute with it, and every particle they move gets a NaN
Poisoned(c, T) ==
    IF c.kind \in {"Boundary", "Contact", "RigidContact"} THEN T
    ELSE [T EXCEPT !.ps = [k \in 1..Len(T.ps) |->
                              IF \E m \in 1..Len(Members(c, T)) :
                                    Members(c, T)[m] = k - 1
                              THEN IF T.ps[k].imass = 0 THEN T.ps[k]
                                   ELSE [T.ps[k] EXCEPT !.ep = <<NaN, NaN>>]
                              ELSE T.ps[k]]]

\* Constraint::project, by the kind of the object; T holds the particle
\* list and the body list
Project(c, T, stabile) ==
    IF \E m \in 1..Len(Members(c, T)) :
          IsNaN(At(T.ps, Members(c, T)[m]).ep)
    THEN Poisoned(c, T)
    ELSE
    CASE c.kind = "Boundary" ->
            [T EXCEPT !.ps = BoundaryProject(c, @, stabile \/ c.stab)]
      [] c.kind = "Contact" ->
            [T EXCEPT !.ps = ContactProject(c, @, stabile)]
      [] c.kind = "RigidContact" ->
            [T EXCEPT !.ps = RigidContactProject(c, @, T.bodies, stabile)]
      [] c.kind = "Distance" ->
            [T EXCEPT !.ps = DistanceProject(c, @, stabile)]
      [] c.kind = "TotalShape" -> TotalShapeProject(c, T)
      [] c.kind \in {"TotalFluid", "Gas"} ->
            [T EXCEPT !.ps = DensityProject(c, @)]
      [] OTHER -> T
\* drawGlobals: the loop bound m_globalConstraints.size() is read again on
\* every pass, and operator[] in the inner loop's test inserts group i with
\* an empty list when the hash does not hold it
RECURSIVE DrawGlobals(_, _)
DrawGlobals(gc, i) ==
    IF i >= Cardinality(DOMAIN gc) THEN gc
    ELSE DrawGlobals(HashTouch(gc, i), i + 1)

\* Simulation::draw
DrawOp(S) == [S EXCEPT !.gc = DrawGlobals(S.gc, 0)]

(***************************************************************************)
(* Simulation::tick, phase by phase.                                       *)
(***************************************************************************)
\* tick, "Add all rigid body shape constraints": every body's shape slot
\* goes to SHAPE; a slot that holds no TotalShapeConstraint ends the process
ShapesOk(bodies) ==
    \A k \in 1..Len(bodies) : bodies[k].shape.kind = "TotalShape"

GatherShapes(bodies) ==
    IF Len(bodies) = 0 THEN EmptyHash
    ELSE [g \in {SHAPE} |-> [k \in 1..Len(bodies) |-> bodies[k].shape]]

\* tick, "Add all other global constraints": i runs while it is below
\* m_globalConstraints.size(), the number of keys, and
\* m_globalConstraints[(ConstraintGroup) i] inserts the key i when the hash
\* does not hold it
RECURSIVE GatherLoop(_, _, _)
GatherLoop(gc, cons, i) ==
    IF i >= Cardinality(DOMAIN gc) THEN [gc |-> gc, cons |-> cons]
    ELSE GatherLoop(HashTouch(gc, i),
                    IF Len(HashGet(gc, i)) = 0 THEN cons
                    ELSE [HashTouch(cons, i) EXCEPT ![i] = @ \o gc[i]],
                    i + 1)

\* the gathering with the per-tick map an alias of m_globalConstraints:
\* what the tick holds is what the simulation stores
GatherGlobalsShared(gc, cons) ==
    LET Both(m) == [gc |-> m, cons |-> m]
    IN Both(GatherLoop(gc, cons, 0).cons)

\* the gathering with the index bounded by the number of keys the hash held
\* when the loop began, and groups read without inserting their keys
GatherGlobalsFixedBound(gc, cons) ==
    LET stored == {g \in 0..(Cardinality(DOMAIN gc) - 1) :
                      Len(HashGet(gc, g)) > 0}
    IN [gc |-> gc,
        cons |-> [g \in (DOMAIN cons) \cup stored |->
                     HashGet(cons, g)
                     \o (IF g \in stored THEN gc[g] ELSE <<>>)]]

GatherGlobals(gc, cons) == GatherLoop(gc, cons, 0)

\* tick (1)-(5): gravity (scaled by ALPHA for a gas), prediction, mass
\* scaling, for every particle
PredictOne(q, dt, grav) ==
    LET g == IF q.ph = "GAS"
             THEN <<TDiv(grav[1] * ALPHA_MILLI, UNIT),
                    TDiv(grav[2] * ALPHA_MILLI, UNIT)>>
             ELSE grav
        q1 == [q EXCEPT !.v = IF IsNaN(q.v) THEN <<NaN, NaN>>
                              ELSE VAdd(q.v, VDiv(VScale(dt, g), UNIT))]
        q2 == [q1 EXCEPT !.ep = Guess(q1, dt)]
    IN ScaleMass(q2)

Predict(ps, dt, grav) == [k \in 1..Len(ps) |-> PredictOne(ps[k], dt, grav)]

\* the pair test with a pair skipped when either particle is immovable
ContactKindEitherImmovable(p, p2) ==
    IF p.imass = 0 \/ p2.imass = 0 THEN "none"
    ELSE IF p.ph = "SOLID" /\ p2.ph = "SOLID" /\ p.bod = p2.bod /\ p.bod # -1
    THEN "none"
    ELSE IF IsNaN(p.ep) \/ IsNaN(p2.ep) THEN "none"
    ELSE IF Dist2(p.ep, p2.ep) < PARTICLE_DIAM * PARTICLE_DIAM
    THEN IF p.ph = "SOLID" /\ p2.ph = "SOLID" THEN "rigid"
         ELSE IF p.ph = "SOLID" \/ p2.ph = "SOLID" THEN "contact"
         ELSE "none"
    ELSE "none"

\* the pair test with particles of no body taken for particles of one body
ContactKindNoBodyTest(p, p2) ==
    IF p.imass = 0 /\ p2.imass = 0 THEN "none"
    ELSE IF p.ph = "SOLID" /\ p2.ph = "SOLID" /\ p.bod = p2.bod THEN "none"
    ELSE IF IsNaN(p.ep) \/ IsNaN(p2.ep) THEN "none"
    ELSE IF Dist2(p.ep, p2.ep) < PARTICLE_DIAM * PARTICLE_DIAM
    THEN IF p.ph = "SOLID" /\ p2.ph = "SOLID" THEN "rigid"
         ELSE IF p.ph = "SOLID" \/ p2.ph = "SOLID" THEN "contact"
         ELSE "none"
    ELSE "none"

\* the pair test with the contact of a solid and a fluid or gas left out
ContactKindSolidOnly(p, p2) ==
    IF p.imass = 0 /\ p2.imass = 0 THEN "none"
    ELSE IF p.ph = "SOLID" /\ p2.ph = "SOLID" /\ p.bod = p2.bod /\ p.bod # -1
    THEN "none"
    ELSE IF IsNaN(p.ep) \/ IsNaN(p2.ep) THEN "none"
    ELSE IF Dist2(p.ep, p2.ep) < PARTICLE_DIAM * PARTICLE_DIAM
    THEN IF p.ph = "SOLID" /\ p2.ph = "SOLID" THEN "rigid" ELSE "none"
    ELSE "none"

\* tick (7): what the pair test makes of particles p and p2
ContactKind(p, p2) ==
    IF p.imass = 0 /\ p2.imass = 0 THEN "none"
    ELSE IF p.ph = "SOLID" /\ p2.ph = "SOLID" /\ p.bod = p2.bod /\ p.bod # -1
    THEN "none"
    ELSE IF IsNaN(p.ep) \/ IsNaN(p2.ep) THEN "none"
    ELSE IF Dist2(p.ep, p2.ep) < PARTICLE_DIAM * PARTICLE_DIAM
    THEN IF p.ph = "SOLID" /\ p2.ph = "SOLID" THEN "rigid"
         ELSE IF p.ph = "SOLID" \/ p2.ph = "SOLID" THEN "contact"
         ELSE "none"
    ELSE "none"

\* the boundary test with the y test chained to the x tests by else-if
BoundaryHitsOneAxis(p, xB, yB) ==
    IF IsNaN(p.ep) THEN << >>
    ELSE IF p.ep[1] < xB[1] + PARTICLE_RAD THEN << <<xB[1], TRUE, TRUE>> >>
    ELSE IF p.ep[1] > xB[2] - PARTICLE_RAD THEN << <<xB[2], TRUE, FALSE>> >>
    ELSE IF p.ep[2] < yB[1] + PARTICLE_RAD THEN << <<yB[1], FALSE, TRUE>> >>
    ELSE IF p.ep[2] > yB[2] - PARTICLE_RAD THEN << <<yB[2], FALSE, FALSE>> >>
    ELSE << >>

\* tick (8): the boundaries particle p has crossed, as <<value, xBoundary,
\* greater>>, the x boundary first; no comparison with a NaN holds
BoundaryHits(p, xB, yB) ==
    (IF IsNaN(p.ep) THEN << >>
     ELSE IF p.ep[1] < xB[1] + PARTICLE_RAD THEN << <<xB[1], TRUE, TRUE>> >>
     ELSE IF p.ep[1] > xB[2] - PARTICLE_RAD THEN << <<xB[2], TRUE, FALSE>> >>
     ELSE << >>)
    \o
    (IF IsNaN(p.ep) THEN << >>
     ELSE IF p.ep[2] < yB[1] + PARTICLE_RAD THEN << <<yB[1], FALSE, TRUE>> >>
     ELSE IF p.ep[2] > yB[2] - PARTICLE_RAD THEN << <<yB[2], FALSE, FALSE>> >>
     ELSE << >>)

\* the inner loop of (7) for particle i, from particle j on; D holds the
\* CONTACT list, the STABILIZATION list and the next fresh identity
RECURSIVE DiscoverPairs(_, _, _, _, _)
DiscoverPairs(ps, i, j, stabilization, D) ==
    IF j >= Len(ps) \/ ~Evaluated(D) THEN D
    ELSE LET kind == ContactKind(At(ps, i), At(ps, j))
             D2 == IF kind = "rigid"
                   THEN IF stabilization
                        THEN [contact |-> Append(D.contact,
                                   RigidContactConstraint(D.nextId, i, j)),
                              stab |-> Append(D.stab,
                                   RigidContactConstraint(D.nextId + 1, i, j)),
                              nextId |-> D.nextId + 2]
                        ELSE [D EXCEPT !.contact = Append(D.contact,
                                   RigidContactConstraint(D.nextId, i, j)),
                                       !.nextId = D.nextId + 1]
                   ELSE IF kind = "contact"
                   THEN [D EXCEPT !.contact = Append(D.contact,
                                   ContactConstraint(D.nextId, i, j)),
                                  !.nextId = D.nextId + 1]
                   ELSE D
         IN DiscoverPairs(ps, i, j + 1, stabilization, D2)

\* the boundary constraints of particle i, hit by hit
RECURSIVE DiscoverBoundaries(_, _, _, _, _)
DiscoverBoundaries(hits, i, k, stabilization, D) ==
    IF k > Len(hits) \/ ~Evaluated(D) THEN D
    ELSE LET h == hits[k]
             D2 == IF stabilization
                   THEN [contact |-> Append(D.contact,
                            BoundaryConstraint(D.nextId, i, h[1], h[2], h[3],
                                               FALSE)),
                         stab |-> Append(D.stab,
                            BoundaryConstraint(D.nextId + 1, i, h[1], h[2],
                                               h[3], TRUE)),
                         nextId |-> D.nextId + 2]
                   ELSE [D EXCEPT !.contact = Append(D.contact,
                            BoundaryConstraint(D.nextId, i, h[1], h[2], h[3],
                                               FALSE)),
                                  !.nextId = D.nextId + 1]
         IN DiscoverBoundaries(hits, i, k + 1, stabilization, D2)

\* tick (6)-(9): for every particle its pair contacts, then its boundaries
RECURSIVE Discover(_, _, _, _, _, _)
Discover(ps, i, stabilization, xB, yB, D) ==
    IF i >= Len(ps) \/ ~Evaluated(D) THEN D
    ELSE Discover(ps, i + 1, stabilization, xB, yB,
                  DiscoverBoundaries(BoundaryHits(At(ps, i), xB, yB), i, 1,
                                     stabilization,
                                     DiscoverPairs(ps, i, i + 1, stabilization,
                                                   D)))

\* the loop "for k: list.at(k)->project(&m_particles)": the projections of
\* one list in list order, each on the particles the one before it left.
\* Every call the tick makes is logged with the pass (phase, iteration),
\* the group, the constraints it was made on (ids) and the callee (via).
RECURSIVE ProjectList(_, _, _, _, _, _, _, _)
ProjectList(T, list, k, phase, it, g, via, stabile) ==
    IF k > Len(list) \/ ~Evaluated(T) THEN T
    ELSE ProjectList([Project(list[k], T, stabile) EXCEPT
                         !.log = Append(@, [phase |-> phase, it |-> it,
                                            g |-> g, ids |-> <<list[k].id>>,
                                            via |-> via])],
                     list, k + 1, phase, it, g, via, stabile)

\* the correction a row of the solver adds to particle q: from is the
\* particle as the rows were assembled, to what the row alone makes of it
\* (its ep and, for a stabilizing row, its p)
AddCorrection(q, from, to) ==
    IF IsNaN(q.ep) \/ IsNaN(to.ep) THEN [q EXCEPT !.ep = <<NaN, NaN>>]
    ELSE [q EXCEPT !.ep = VAdd(@, VSub(to.ep, from.ep)),
                   !.p = IF to.p = from.p \/ IsNaN(@) THEN @
                         ELSE VAdd(@, VSub(to.p, from.p))]

\* the rows of the list from row k on, each solved on the particles T the
\* solver was called with, their corrections added up in acc
RECURSIVE SolveRows(_, _, _, _, _)
SolveRows(T, list, k, acc, stabile) ==
    IF k > Len(list) \/ ~Evaluated(acc) THEN acc
    ELSE LET R == Project(list[k], T, stabile).ps
         IN SolveRows(T, list, k + 1,
                      [n \in 1..Len(acc) |->
                          IF R[n] = T.ps[n] THEN acc[n]
                          ELSE AddCorrection(acc[n], T.ps[n], R[n])],
                      stabile)

\* Solver::solveAndUpdate(particles, list, stabile) (spec 4.3): the
\* constraint values C and the Jacobian J of the whole list are assembled
\* from the particles as they are at the call, the system
\* J M^-1 J^T lambda = -C is solved and the update M^-1 J^T lambda is
\* written back in one step: no row sees the correction of another row, and
\* the list has no order of projection.  The model solves every row for its
\* own multiplier, which is the system with the terms that couple two rows
\* left out; a row's correction is then what its projection makes of the
\* particles at the call.  The call is logged once, with the list it was
\* handed.
SolveAndUpdate(T, list, phase, it, g, via, stabile) ==
    [T EXCEPT !.ps = SolveRows(T, list, 1, T.ps, stabile),
              !.log = Append(@, [phase |-> phase, it |-> it, g |-> g,
                                 ids |-> [k \in 1..Len(list) |-> list[k].id],
                                 via |-> via])]

\* tick (10)-(15), built with USE_STABILIZATION
RECURSIVE Stabilize(_, _, _, _)
Stabilize(T, cons, iterative, i) ==
    IF i >= STABILIZATION_ITERATIONS \/ ~Evaluated(T) THEN T
    ELSE IF iterative
    THEN Stabilize(ProjectList(T, HashGet(cons, STABILIZATION), 1, "stab", i,
                               STABILIZATION, "project", FALSE),
                   cons, iterative, i + 1)
    ELSE IF Len(HashGet(cons, STABILIZATION)) > 0
    THEN Stabilize(SolveAndUpdate(T, HashGet(cons, STABILIZATION), "stab", i,
                                  STABILIZATION, "contactSolver", TRUE),
                   cons, iterative, i + 1)
    ELSE T

\* the loop over the groups without the skip of STABILIZATION
RECURSIVE SolveGroupsNoSkip(_, _, _, _)
SolveGroupsNoSkip(T, cons, i, j) ==
    IF j >= NUM_CONSTRAINT_GROUPS \/ ~Evaluated(T) THEN T
    ELSE SolveGroupsNoSkip(ProjectList(T, HashGet(cons, j), 1, "main", i, j,
                                       "project", FALSE),
                           cons, i, j + 1)

\* tick (17)-(20), built with ITERATIVE: the groups in the order of the
\* enumeration, STABILIZATION skipped
RECURSIVE SolveGroups(_, _, _, _)
SolveGroups(T, cons, i, j) ==
    IF j >= NUM_CONSTRAINT_GROUPS \/ ~Evaluated(T) THEN T
    ELSE IF j = STABILIZATION THEN SolveGroups(T, cons, i, j + 1)
    ELSE SolveGroups(ProjectList(T, HashGet(cons, j), 1, "main", i, j,
                                 "project", FALSE),
                     cons, i, j + 1)

\* the batched pass with the standard solver called before the contact
\* solver
SolveBatchedStandardFirst(T, cons, i) ==
    LET T1 == IF Len(HashGet(cons, STANDARD)) > 0
              THEN SolveAndUpdate(T, HashGet(cons, STANDARD), "main", i,
                                  STANDARD, "standardSolver", FALSE)
              ELSE T
        T2 == IF Len(HashGet(cons, CONTACT)) > 0
              THEN SolveAndUpdate(T1, HashGet(cons, CONTACT), "main", i,
                                  CONTACT, "contactSolver", FALSE)
              ELSE T1
    IN ProjectList(T2, HashGet(cons, SHAPE), 1, "main", i, SHAPE, "project",
                   FALSE)

\* tick (17)-(21), built without ITERATIVE: the contact solver, the
\* standard solver, then the SHAPE projections
SolveBatched(T, cons, i) ==
    LET T1 == IF Len(HashGet(cons, CONTACT)) > 0
              THEN SolveAndUpdate(T, HashGet(cons, CONTACT), "main", i,
                                  CONTACT, "contactSolver", FALSE)
              ELSE T
        T2 == IF Len(HashGet(cons, STANDARD)) > 0
              THEN SolveAndUpdate(T1, HashGet(cons, STANDARD), "main", i,
                                  STANDARD, "standardSolver", FALSE)
              ELSE T1
    IN ProjectList(T2, HashGet(cons, SHAPE), 1, "main", i, SHAPE, "project",
                   FALSE)

\* tick (16)-(22)
RECURSIVE Solve(_, _, _, _)
Solve(T, cons, iterative, i) ==
    IF i >= SOLVER_ITERATIONS \/ ~Evaluated(T) THEN T
    ELSE Solve(IF iterative THEN SolveGroups(T, cons, i, 0)
               ELSE SolveBatched(T, cons, i),
               cons, iterative, i + 1)

\* tick (23)-(28): the velocity from the displacement, then confirmGuess
RecoverOne(q, dt) ==
    ConfirmGuess([q EXCEPT !.v = IF IsNaN(q.ep) \/ IsNaN(q.p)
                                 THEN <<NaN, NaN>>
                                 ELSE VDiv(VScale(UNIT, VSub(q.ep, q.p)),
                                           dt)])

Recover(ps, dt) == [k \in 1..Len(ps) |-> RecoverOne(ps[k], dt)]

\* the identities of a list, last element first
RECURSIVE IdsBackward(_, _)
IdsBackward(list, k) ==
    IF k < 1 THEN <<>> ELSE <<list[k].id>> \o IdsBackward(list, k - 1)

\* the deletions with the STABILIZATION loop left out
TeardownContactOnly(cons) ==
    IdsBackward(HashGet(cons, CONTACT), Len(HashGet(cons, CONTACT)))

\* tick, "Delete temporary contact constraints": CONTACT from its last
\* element to its first, then STABILIZATION likewise
Teardown(cons) ==
    IdsBackward(HashGet(cons, CONTACT), Len(HashGet(cons, CONTACT)))
    \o IdsBackward(HashGet(cons, STABILIZATION),
                   Len(HashGet(cons, STABILIZATION)))

\* the ephemeral lists as the entries of the per-tick map
WithEphemeral(cons, D) ==
    LET Appended(h, g, list) ==
            IF Len(list) = 0 THEN h
            ELSE [HashTouch(h, g) EXCEPT ![g] = @ \o list]
    IN Appended(Appended(cons, CONTACT, D.contact), STABILIZATION, D.stab)

\* the tick with a return in the place of the break of the stabilization
\* loop: in the batched stabilizing build a tick whose STABILIZATION list is
\* empty ends there, with the predictions made and the contacts allocated
TickOpReturnOnEmpty(S, dt, stabilization, iterative) ==
    LET Finish(G, pred, D, cons, T) ==
            [S |-> [S EXCEPT !.ps = Recover(T.ps, dt), !.bodies = T.bodies,
                             !.gc = G.gc, !.nextId = D.nextId],
             gathered |-> G.cons, pred |-> pred, contact |-> D.contact,
             stab |-> D.stab, log |-> T.log, freed |-> Teardown(cons)]
        Returned(G, pred, D) ==
            [S |-> [S EXCEPT !.ps = pred, !.gc = G.gc, !.nextId = D.nextId],
             gathered |-> G.cons, pred |-> pred, contact |-> D.contact,
             stab |-> D.stab, log |-> <<>>, freed |-> <<>>]
        Passes(cons, T) ==
            Solve(IF stabilization THEN Stabilize(T, cons, iterative, 0)
                  ELSE T,
                  cons, iterative, 0)
        Run(G, pred, D, cons) ==
            Finish(G, pred, D, cons,
                   Passes(cons, [ps |-> pred, bodies |-> S.bodies,
                                 log |-> <<>>]))
        Found(G, pred, D) ==
            IF stabilization /\ ~iterative /\ Len(D.stab) = 0
            THEN Returned(G, pred, D)
            ELSE Run(G, pred, D, WithEphemeral(G.cons, D))
        Start(G, pred) ==
            Found(G, pred,
                  Discover(pred, 0, stabilization, S.xB, S.yB,
                           [contact |-> <<>>, stab |-> <<>>,
                            nextId |-> S.nextId]))
    IN IF ~ShapesOk(S.bodies)
       THEN [S |-> [S EXCEPT !.exited = TRUE], gathered |-> EmptyHash,
             pred |-> S.ps, contact |-> <<>>, stab |-> <<>>, log |-> <<>>,
             freed |-> <<>>]
       ELSE Start(GatherGlobals(S.gc, GatherShapes(S.bodies)),
                  Predict(S.ps, dt, S.grav))

\* Simulation::tick(seconds) in a build with or without USE_STABILIZATION
\* and ITERATIVE.  The result holds the simulation after the tick (S) and
\* what the tick did: the per-tick map after the gathering (gathered), the
\* particles at contact discovery (pred), the lists discovery made, the
\* projections in order (log) and the deletions in order (freed).
TickOp(S, dt, stabilization, iterative) ==
    LET Finish(G, pred, D, cons, T) ==
            [S |-> [S EXCEPT !.ps = Recover(T.ps, dt), !.bodies = T.bodies,
                             !.gc = G.gc, !.nextId = D.nextId],
             gathered |-> G.cons, pred |-> pred, contact |-> D.contact,
             stab |-> D.stab, log |-> T.log, freed |-> Teardown(cons)]
        Passes(cons, T) ==
            Solve(IF stabilization THEN Stabilize(T, cons, iterative, 0)
                  ELSE T,
                  cons, iterative, 0)
        Run(G, pred, D, cons) ==
            Finish(G, pred, D, cons,
                   Passes(cons, [ps |-> pred, bodies |-> S.bodies,
                                 log |-> <<>>]))
        Found(G, pred, D) == Run(G, pred, D, WithEphemeral(G.cons, D))
        Start(G, pred) ==
            Found(G, pred,
                  Discover(pred, 0, stabilization, S.xB, S.yB,
                           [contact |-> <<>>, stab |-> <<>>,
                            nextId |-> S.nextId]))
    IN IF ~ShapesOk(S.bodies)
       THEN [S |-> [S EXCEPT !.exited = TRUE], gathered |-> EmptyHash,
             pred |-> S.ps, contact |-> <<>>, stab |-> <<>>, log |-> <<>>,
             freed |-> <<>>]
       ELSE Start(GatherGlobals(S.gc, GatherShapes(S.bodies)),
                  Predict(S.ps, dt, S.grav))

\* Simulation::mousePressed: every particle gets 7 * normalize(p - part->p);
\* for a particle at p that is 7 * normalize((0,0)), a NaN
MousePressedOne(q, pt) ==
    IF IsNaN(q.p) \/ IsNaN(q.v) \/ q.p = pt THEN [q EXCEPT !.v = <<NaN, NaN>>]
    ELSE
    [q EXCEPT !.v = VAdd(q.v, VDiv(VScale(MOUSE_IMPULSE * WORLD,
                                          Normalize(VSub(pt, q.p))), UNIT))]

MousePressedOp(ps, pt) == [k \in 1..Len(ps) |-> MousePressedOne(ps[k], pt)]
(***************************************************************************)
(* The state machine.                                                      *)
(***************************************************************************)
VARIABLES
    m_particles,          \* QList<Particle *>
    m_bodies,             \* QList<Body *>
    m_globalConstraints,  \* QHash<ConstraintGroup, QList<Constraint *> >
    m_gravity,
    m_xBoundaries,
    m_yBoundaries,
    m_point,
    nextId,               \* the next fresh heap identity
    exited,               \* the process has called exit(1)
    useStabilization,     \* the build defines USE_STABILIZATION
    iterative,            \* the build defines ITERATIVE
    last,                 \* the last call but draw, and what it did
    nTicks, nClicks, nCreates, nInits

\* what the build fixes: the enumeration and the two compile-time switches
build == <<ConstraintGroup, useStabilization, iterative>>

vars ==
    <<build, m_particles, m_bodies, m_globalConstraints, m_gravity,
      m_xBoundaries, m_yBoundaries, m_point, nextId, exited, last, nTicks,
      nClicks, nCreates, nInits>>

Sim ==
    [ps |-> m_particles, bodies |-> m_bodies, gc |-> m_globalConstraints,
     grav |-> m_gravity, xB |-> m_xBoundaries, yB |-> m_yBoundaries,
     nextId |-> nextId, exited |-> exited]

SetSim(S) ==
    /\ m_particles' = S.ps
    /\ m_bodies' = S.bodies
    /\ m_globalConstraints' = S.gc
    /\ m_gravity' = S.grav
    /\ m_xBoundaries' = S.xB
    /\ m_yBoundaries' = S.yB
    /\ nextId' = S.nextId
    /\ exited' = S.exited

\* a simulation object before its constructor has run
Blank ==
    [ps |-> <<>>, bodies |-> <<>>, gc |-> EmptyHash, grav |-> <<0, 0>>,
     xB |-> <<0, 0>>, yB |-> <<0, 0>>, nextId |-> 1, exited |-> FALSE]

\* the inputs of the model; the vertices handed to the creation calls lie
\* where the body of the constructed scene, moving at 5 units a second,
\* comes within half a second and within a second
Seconds == {UNIT, 2 * UNIT}

\* shorter frames: in half a second the constructed scene's body falls
\* without reaching the floor
FrameSeconds == {UNIT \div 2, UNIT}

MousePoints == {<<3, 7>>}

Vertex(x, y, imass) == Particle(<<x, y>>, imass, "SOLID")

RigidInputs ==
    { <<Vertex(45, 35, IMASS_ONE), Vertex(55, 35, IMASS_ONE)>>,
      <<Vertex(45, 35, IMASS_ONE)>>,
      <<Vertex(45, 35, IMASS_ONE), Vertex(55, 35, 0)>> }

DensityInputs ==
    { <<Vertex(38, 30, IMASS_ONE), Vertex(45, 30, IMASS_ONE)>>,
      <<Vertex(38, 30, IMASS_ONE), Vertex(45, 30, 0)>>,
      << >> }

\* the values of 100 * frand() a preset draws for its group tags, one for
\* each createGas and createFluid call in the order of the calls: initGas
\* draws four, initFluid two, initFluidSolid one
TagDraws == {<<0, 57, 57, 0>>, <<57, 57, 0, 57>>}

\* the preset and the values of frand() when init is called on a running
\* scene: the scene of bodies, distance constraints and a particle of no
\* body
ReinitTypes == {"PENDULUM_TEST"}

ReinitTags == {<<0, 57, 57, 0>>}

\* the presets with particles of no body (GRANULAR_TEST) and with the
\* immovable particle (PENDULUM_TEST)
BuildScenes == {"GRANULAR_TEST", "PENDULUM_TEST"}

\* the presets with bodies and STANDARD constraints
OrderScenes == {"PENDULUM_TEST", "FLUID_SOLID_TEST"}

\* Simulation::Simulation(): init(FRICTION_TEST), in a build with any of
\* the declarations of the enumeration
Init ==
    /\ ConstraintGroup \in Enumerations
    /\ useStabilization \in BOOLEAN
    /\ iterative \in BOOLEAN
    /\ LET S == InitOp(Blank, "FRICTION_TEST", <<0, 0, 0, 0>>)
       IN /\ m_particles = S.ps
          /\ m_bodies = S.bodies
          /\ m_globalConstraints = S.gc
          /\ m_gravity = S.grav
          /\ m_xBoundaries = S.xB
          /\ m_yBoundaries = S.yB
          /\ nextId = S.nextId
          /\ exited = S.exited
    /\ m_point = <<0, 0>>
    /\ last = [op |-> "construct"]
    /\ nTicks = 0
    /\ nClicks = 0
    /\ nCreates = 0
    /\ nInits = 0

\* Simulation::init(type).  init discards every particle, body and
\* constraint, so the scene it leaves does not depend on the calls before
\* it: the model calls it on the simulation as constructed.
InitScene(type, tags) ==
    /\ ~exited
    /\ last.op = "construct"
    /\ SetSim(InitOp(Sim, type, tags))
    /\ last' = [op |-> "init", type |-> type, before |-> Sim]
    /\ UNCHANGED <<build, m_point, nTicks, nClicks,
                   nCreates, nInits>>

\* Simulation::draw(): what it draws is no state of the model, but
\* drawGlobals inserts the missing group keys into m_globalConstraints.
\* last keeps the call before it: draw moves and deletes nothing.
Draw ==
    /\ ~exited
    /\ SetSim(DrawOp(Sim))
    /\ UNCHANGED <<build, m_point, last, nTicks,
                   nClicks, nCreates, nInits>>

\* Simulation::init(type) on a running scene: clear, then the preset
Reinit(type, tags) ==
    /\ ~exited
    /\ nInits < MaxInits
    /\ SetSim(InitOp(Sim, type, tags))
    /\ last' = [op |-> "reinit", type |-> type, before |-> Sim,
                cleared |-> ClearOp(Sim), freed |-> ClearFreed(Sim)]
    /\ nInits' = nInits + 1
    /\ UNCHANGED <<build, m_point, nTicks, nClicks,
                   nCreates>>

\* Simulation::tick(seconds)
Tick(dt) ==
    /\ ~exited
    /\ nTicks < MaxTicks
    /\ \E R \in {TickOp(Sim, dt, useStabilization, iterative)} :
          /\ SetSim(R.S)
          /\ last' = [op |-> "tick", dt |-> dt, before |-> Sim,
                      gathered |-> R.gathered, pred |-> R.pred,
                      contact |-> R.contact, stab |-> R.stab, log |-> R.log,
                      freed |-> R.freed]
    /\ nTicks' = nTicks + 1
    /\ UNCHANGED <<build, m_point, nClicks, nCreates,
                   nInits>>

\* Simulation::mousePressed(p)
MousePressed(pt) ==
    /\ ~exited
    /\ nClicks < MaxClicks
    /\ m_particles' = MousePressedOp(m_particles, pt)
    /\ m_point' = pt
    /\ last' = [op |-> "mousePressed", pt |-> pt, before |-> Sim]
    /\ nClicks' = nClicks + 1
    /\ UNCHANGED <<build, m_bodies, m_globalConstraints, m_gravity,
                   m_xBoundaries, m_yBoundaries, nextId, exited, nTicks,
                   nCreates, nInits>>

\* Simulation::createRigidBody(verts, sdfData) on freshly allocated vertices
CreateRigidBody(verts) ==
    /\ ~exited
    /\ nCreates < MaxCreates
    /\ SetSim(NewBody(Sim, verts, BoxData(Len(verts), PARTICLE_RAD)))
    /\ last' = [op |-> "createRigidBody", verts |-> verts, before |-> Sim]
    /\ nCreates' = nCreates + 1
    /\ UNCHANGED <<build, m_point, nTicks, nClicks,
                   nInits>>

\* Simulation::createFluid(verts, density)
CreateFluid(verts, tag) ==
    /\ ~exited
    /\ nCreates < MaxCreates
    /\ SetSim(NewFluid(Sim, verts, UNIT, tag))
    /\ last' = [op |-> "createFluid", verts |-> verts, before |-> Sim]
    /\ nCreates' = nCreates + 1
    /\ UNCHANGED <<build, m_point, nTicks, nClicks,
                   nInits>>

\* Simulation::createGas(verts, density)
CreateGas(verts, tag) ==
    /\ ~exited
    /\ nCreates < MaxCreates
    /\ SetSim(NewGas(Sim, verts, UNIT, tag))
    /\ last' = [op |-> "createGas", verts |-> verts, before |-> Sim]
    /\ nCreates' = nCreates + 1
    /\ UNCHANGED <<build, m_point, nTicks, nClicks,
                   nInits>>

Next ==
    \/ \E type \in SceneTypes, tags \in TagDraws : InitScene(type, tags)
    \/ \E dt \in Seconds : Tick(dt)
    \/ \E pt \in MousePoints : MousePressed(pt)
    \/ \E verts \in RigidInputs : CreateRigidBody(verts)
    \/ \E verts \in DensityInputs, tag \in Tags : CreateFluid(verts, tag)
    \/ \E verts \in DensityInputs, tag \in Tags : CreateGas(verts, tag)
    \/ \E type \in ReinitTypes, tags \in ReinitTags : Reinit(type, tags)
    \/ Draw

Spec == Init /\ [][Next]_vars

\* the builds of one declaration, the one with STABILIZATION first.  They
\* are the builds of the specifications whose claims do not speak of the
\* order of the groups.
InitStabilizationFirst ==
    /\ Init
    /\ ConstraintGroup = [STABILIZATION |-> 0, CONTACT |-> 1, STANDARD |-> 2,
                          SHAPE |-> 3]

\* the calls of a running scene: a preset, then frames and mouse presses
NextTick ==
    \/ \E type \in SceneTypes, tags \in TagDraws : InitScene(type, tags)
    \/ \E dt \in Seconds : Tick(dt)
    \/ \E pt \in MousePoints : MousePressed(pt)

SpecTick == InitStabilizationFirst /\ [][NextTick]_vars

\* the builds of every declaration of the enumeration: a preset with
\* bodies, STANDARD constraints and contacts, then frames
NextOrder ==
    \/ \E type \in OrderScenes, tags \in ReinitTags : InitScene(type, tags)
    \/ \E dt \in Seconds : Tick(dt)

SpecOrder == Init /\ [][NextOrder]_vars

\* the calls that build a scene: a preset, then the public creation calls
NextCreate ==
    \/ \E type \in SceneTypes, tags \in TagDraws : InitScene(type, tags)
    \/ \E verts \in RigidInputs : CreateRigidBody(verts)
    \/ \E verts \in DensityInputs, tag \in Tags : CreateFluid(verts, tag)
    \/ \E verts \in DensityInputs, tag \in Tags : CreateGas(verts, tag)

SpecCreate == InitStabilizationFirst /\ [][NextCreate]_vars

\* the constructed scene or a preset of loose and immovable particles,
\* extended by the public creation calls before its first frame, then
\* frames of half a second and of a second
NextBuild ==
    \/ \E type \in BuildScenes, tags \in ReinitTags : InitScene(type, tags)
    \/ \E verts \in RigidInputs : nTicks = 0 /\ CreateRigidBody(verts)
    \/ \E verts \in DensityInputs, tag \in Tags :
          nTicks = 0 /\ CreateFluid(verts, tag)
    \/ \E verts \in DensityInputs, tag \in Tags :
          nTicks = 0 /\ CreateGas(verts, tag)
    \/ \E dt \in FrameSeconds : Tick(dt)

SpecBuild == InitStabilizationFirst /\ [][NextBuild]_vars

\* a preset, frames drawn or not, and init called again on the running
\* scene
NextClear ==
    \/ \E type \in SceneTypes, tags \in TagDraws : InitScene(type, tags)
    \/ \E dt \in Seconds : Tick(dt)
    \/ \E type \in ReinitTypes, tags \in ReinitTags : Reinit(type, tags)
    \/ Draw

SpecClear == InitStabilizationFirst /\ [][NextClear]_vars
(***************************************************************************)
(* The claims.  last holds the most recent call: its arguments, the        *)
(* simulation before it (before) and, for a tick, what the tick did.       *)
(***************************************************************************)
\* the identities of the constraint objects of a list
Ids(list) == [k \in 1..Len(list) |-> list[k].id]

\* how often x occurs in the sequence
Count(seq, x) == Cardinality({k \in 1..Len(seq) : seq[k] = x})

\* the tolerance tau of the post-tick properties
TAU == PARTICLE_DIAM \div SOLVER_ITERATIONS

\* C1: after a tick, every particle whose imass is 0 has velocity 0 and the
\* position it had before the tick.
C1_ImmovableUnmoved ==
    last.op = "tick" =>
        \A k \in 1..Len(m_particles) :
            last.before.ps[k].imass = 0 =>
                /\ m_particles[k].v = <<0, 0>>
                /\ m_particles[k].p = last.before.ps[k].p

\* the persistent constraint objects of a simulation: the bodies' shape
\* constraints and the lists of m_globalConstraints
PersistentIds(S) ==
    {S.bodies[k].shape.id : k \in 1..Len(S.bodies)}
    \cup UNION {{S.gc[g][k].id : k \in 1..Len(S.gc[g])} : g \in DOMAIN S.gc}

\* C2: every CONTACT and STABILIZATION constraint a tick allocates is
\* destroyed exactly once before the tick returns, in both builds; the tick
\* destroys nothing else, so no SHAPE or STANDARD constraint, and the
\* persistent constraints are the ones from before the tick.
C2_EphemeralFreedOnce ==
    last.op = "tick" =>
        LET alloc == Ids(last.contact) \o Ids(last.stab)
        IN /\ \A k \in 1..Len(alloc) :
                 Count(alloc, alloc[k]) = 1 /\ Count(last.freed, alloc[k]) = 1
           /\ \A k \in 1..Len(last.freed) : Count(alloc, last.freed[k]) = 1
           /\ \A x \in PersistentIds(last.before) : Count(last.freed, x) = 0
           /\ PersistentIds(Sim) = PersistentIds(last.before)

\* a tick of the batched stabilizing build that left the stabilization loop
\* by its break, the STABILIZATION list being empty, after discovery had
\* allocated CONTACT constraints, while persistent constraints existed; the
\* tick went on to the main pass and deleted what it had allocated
C2_Witness ==
    /\ last.op = "tick"
    /\ useStabilization
    /\ ~iterative
    /\ Len(last.stab) = 0
    /\ Len(last.contact) > 0
    /\ PersistentIds(last.before) # {}
    /\ Len(last.log) > 0
    /\ Len(last.freed) = Len(last.contact)

\* what the claim says discovery makes of the particles i < j
C3_Expected(q, q2) ==
    IF q.imass = 0 /\ q2.imass = 0 THEN "none"
    ELSE IF q.ph = "SOLID" /\ q2.ph = "SOLID" /\ q.bod = q2.bod /\ q.bod # -1
    THEN "none"
    ELSE IF Dist2(q.ep, q2.ep) >= PARTICLE_DIAM * PARTICLE_DIAM THEN "none"
    ELSE IF q.ph = "SOLID" /\ q2.ph = "SOLID" THEN "RigidContact"
    ELSE IF q.ph = "SOLID" \/ q2.ph = "SOLID" THEN "Contact"
    ELSE "none"

\* the number of constraints of a kind on the pair (i, j) in a list
PairCount(list, kind, i, j) ==
    Cardinality({k \in 1..Len(list) :
                    list[k].kind = kind /\ list[k].i = i /\ list[k].j = j})

PairKinds == {"RigidContact", "Contact"}

\* C3: for every pair i < j discovery makes at most one CONTACT constraint,
\* of the kind the pair's masses, phases, bodies and predicted distance
\* decide, and a separate RigidContactConstraint in STABILIZATION exactly
\* when it made one in CONTACT and the build stabilizes.
C3_ContactDiscovery ==
    last.op = "tick" =>
        /\ \A i, j \in 0..(Len(last.pred) - 1) :
              i < j =>
                LET e == C3_Expected(last.pred[i + 1], last.pred[j + 1])
                IN /\ \A kind \in PairKinds :
                         PairCount(last.contact, kind, i, j) =
                             IF e = kind THEN 1 ELSE 0
                   /\ PairCount(last.stab, "RigidContact", i, j) =
                         IF e = "RigidContact" /\ useStabilization
                         THEN 1 ELSE 0
                   /\ PairCount(last.stab, "Contact", i, j) = 0
        /\ \A k \in 1..Len(last.contact) :
              last.contact[k].kind \in PairKinds =>
                  /\ 0 <= last.contact[k].i
                  /\ last.contact[k].i < last.contact[k].j
                  /\ last.contact[k].j < Len(last.pred)
        /\ \A k \in 1..Len(last.stab) :
              last.stab[k].kind \in PairKinds =>
                  /\ last.stab[k].i < last.stab[k].j
                  /\ Count(Ids(last.contact), last.stab[k].id) = 0

\* a tick of the stabilizing build that found a contact of two SOLID
\* particles of no body (both have bod = -1) and gave it its stabilization
\* copy
C3_Witness ==
    /\ last.op = "tick"
    /\ useStabilization
    /\ \E k \in 1..Len(last.contact) :
          /\ last.contact[k].kind = "RigidContact"
          /\ last.pred[last.contact[k].i + 1].bod = -1
          /\ last.pred[last.contact[k].j + 1].bod = -1
          /\ PairCount(last.stab, "RigidContact", last.contact[k].i,
                       last.contact[k].j) = 1

\* the identities of the calls of a log, from entry k on, in order
RECURSIVE LogIds(_, _)
LogIds(log, k) ==
    IF k > Len(log) THEN <<>> ELSE log[k].ids \o LogIds(log, k + 1)

\* the list the tick holds for group g while it solves: what it gathered,
\* then, for CONTACT and STABILIZATION, what discovery appended
TickList(g) ==
    HashGet(last.gathered, g)
    \o (IF g = CONTACT THEN last.contact
        ELSE IF g = STABILIZATION THEN last.stab ELSE <<>>)

\* the projections of the main solver pass, in the order they were made
MainLog == SelectSeq(last.log, LAMBDA e : e.phase = "main")

\* the identities projected in outer iteration it for group g, in order
MainIds(it, g) ==
    LogIds(SelectSeq(last.log,
                     LAMBDA e : e.phase = "main" /\ e.it = it /\ e.g = g), 1)

MainGroups == {CONTACT, STANDARD, SHAPE}

\* the place of a group in the order the claim states
ClaimedPlace(g) ==
    IF g = CONTACT THEN 1 ELSE IF g = STANDARD THEN 2 ELSE 3

C5_GatherComplete ==
    last.op = "tick" =>
        \A g \in 0..(NUM_CONSTRAINT_GROUPS - 1) :
            /\ HashGet(last.gathered, g) =
                  (IF g = SHAPE
                   THEN [k \in 1..Len(last.before.bodies) |->
                            last.before.bodies[k].shape]
                   ELSE <<>>)
                  \o HashGet(last.before.gc, g)
            /\ \A k \in 1..Len(HashGet(last.gathered, g)) :
                  Count(Ids(HashGet(last.gathered, g)),
                        HashGet(last.gathered, g)[k].id) = 1

\* a tick that started with bodies and with STANDARD the only group of
\* m_globalConstraints
C5_Witness ==
    /\ last.op = "tick"
    /\ Len(last.before.bodies) > 0
    /\ DOMAIN last.before.gc = {STANDARD}
    /\ Len(last.before.gc[STANDARD]) > 0

\* the four boundaries of the domain before the tick, as <<value,
\* xBoundary, greater>>
Boundaries ==
    { <<last.before.xB[1], TRUE, TRUE>>, <<last.before.xB[2], TRUE, FALSE>>,
      <<last.before.yB[1], FALSE, TRUE>>, <<last.before.yB[2], FALSE, FALSE>> }

\* the predicted position ep has crossed the boundary b
Crossed(ep, b) ==
    LET x == IF b[2] THEN ep[1] ELSE ep[2]
    IN IF b[3] THEN x < b[1] + PARTICLE_RAD ELSE x > b[1] - PARTICLE_RAD

\* the number of boundary constraints for particle i and boundary b in a
\* list, stabilizing or not
BoundaryCount(list, i, b, stab) ==
    Cardinality({k \in 1..Len(list) :
                    /\ list[k].kind = "Boundary"
                    /\ list[k].i = i
                    /\ <<list[k].val, list[k].xb, list[k].lo>> = b
                    /\ list[k].stab = stab})

\* C6: after discovery, for every particle and each of the four boundaries,
\* CONTACT holds a boundary constraint for them exactly when the predicted
\* position crossed the boundary, STABILIZATION holds a stabilizing copy
\* exactly when it did and the build stabilizes, and there is no other
\* boundary constraint.
C6_BoundaryConstraints ==
    last.op = "tick" =>
        /\ \A i \in 0..(Len(last.pred) - 1), b \in Boundaries :
              /\ BoundaryCount(last.contact, i, b, FALSE) =
                    IF Crossed(last.pred[i + 1].ep, b) THEN 1 ELSE 0
              /\ BoundaryCount(last.stab, i, b, TRUE) =
                    IF Crossed(last.pred[i + 1].ep, b) /\ useStabilization
                    THEN 1 ELSE 0
        /\ \A k \in 1..Len(last.contact) :
              last.contact[k].kind = "Boundary" =>
                  /\ last.contact[k].i \in 0..(Len(last.pred) - 1)
                  /\ <<last.contact[k].val, last.contact[k].xb,
                       last.contact[k].lo>> \in Boundaries
                  /\ ~last.contact[k].stab
        /\ \A k \in 1..Len(last.stab) :
              last.stab[k].kind = "Boundary" =>
                  /\ last.stab[k].i \in 0..(Len(last.pred) - 1)
                  /\ <<last.stab[k].val, last.stab[k].xb,
                       last.stab[k].lo>> \in Boundaries
                  /\ last.stab[k].stab

\* a tick of the stabilizing build in which a particle crossed an x and a
\* y boundary and another particle crossed none
C6_Witness ==
    /\ last.op = "tick"
    /\ useStabilization
    /\ \E i \in 0..(Len(last.pred) - 1) :
          Cardinality({b \in Boundaries :
                          Crossed(last.pred[i + 1].ep, b)}) = 2
    /\ \E i \in 0..(Len(last.pred) - 1) :
          \A b \in Boundaries : ~Crossed(last.pred[i + 1].ep, b)

\* particles i and j belong to the same rigid body
SameBody(q, q2) == q.ph = "SOLID" /\ q2.ph = "SOLID" /\ q.bod = q2.bod /\ q.bod # -1

\* C7: after a tick, any two particles of which at least one is SOLID and
\* which are not in the same rigid body are at least PARTICLE_DIAM - tau
\* apart.
C7_NonPenetration ==
    last.op = "tick" =>
        \A i, j \in 1..Len(m_particles) :
            (/\ i < j
             /\ m_particles[i].ph = "SOLID" \/ m_particles[j].ph = "SOLID"
             /\ ~SameBody(m_particles[i], m_particles[j]))
            => Dist2(m_particles[i].p, m_particles[j].p) >=
                   (PARTICLE_DIAM - TAU) * (PARTICLE_DIAM - TAU)

\* C8: after a tick, every particle, immovable ones included, lies inside
\* the domain inflated by tau.
C8_InsideDomain ==
    last.op = "tick" =>
        \A k \in 1..Len(m_particles) :
            /\ m_particles[k].p[1] >= m_xBoundaries[1] - TAU
            /\ m_particles[k].p[1] <= m_xBoundaries[2] + TAU
            /\ m_particles[k].p[2] >= m_yBoundaries[1] - TAU
            /\ m_particles[k].p[2] <= m_yBoundaries[2] + TAU

CreateOps == {"createRigidBody", "createFluid", "createGas"}

\* the call the state records is an invalid construction
InvalidCreate ==
    \/ last.op = "createRigidBody" /\ Len(last.verts) < 2
    \/ \E k \in 1..Len(last.verts) : last.verts[k].imass = 0

\* C9: a creation call with too few vertices for a rigid body, or with a
\* vertex of infinite mass, ends in exit(1) having appended no body and no
\* STANDARD constraint; a call with valid vertices does not end in exit(1).
C9_InvalidConstructionFailsFast ==
    last.op \in CreateOps =>
        /\ exited <=> InvalidCreate
        /\ exited =>
              /\ m_bodies = last.before.bodies
              /\ HashGet(m_globalConstraints, STANDARD) =
                     HashGet(last.before.gc, STANDARD)

\* a rigid body call that found a vertex of infinite mass after it had
\* appended a valid one
C9_Witness ==
    /\ last.op = "createRigidBody"
    /\ exited
    /\ Len(last.verts) = 2
    /\ Len(m_particles) = Len(last.before.ps) + 1

\* the velocity change dv is an impulse of magnitude MOUSE_IMPULSE along
\* the direction d, up to the rounding of the lattice
ImpulseAlong(dv, d) ==
    /\ Dot(dv, d) > 0
    /\ Abs(Cross(dv, d)) <= 2 * (Abs(d[1]) + Abs(d[2]))
    /\ Len2(dv) >= (MOUSE_IMPULSE * WORLD - 2) * (MOUSE_IMPULSE * WORLD - 2)
    /\ Len2(dv) <= (MOUSE_IMPULSE * WORLD + 1) * (MOUSE_IMPULSE * WORLD + 1)

\* C10: mousePressed(p) adds to every particle's velocity an impulse of
\* magnitude 7 directed from p to the particle's position, radially
\* outward, and changes no position.
C10_ImpulseOutward ==
    last.op = "mousePressed" =>
        \A k \in 1..Len(m_particles) :
            /\ m_particles[k].p = last.before.ps[k].p
            /\ ~IsNaN(m_particles[k].v)
            /\ ImpulseAlong(VSub(m_particles[k].v, last.before.ps[k].v),
                            VSub(m_particles[k].p, last.pt))

\* the stabilization projections of the tick, in the order they were made
StabLog == SelectSeq(last.log, LAMBDA e : e.phase = "stab")

\* the identities projected in stabilization pass it, in order
StabIds(it) ==
    LogIds(SelectSeq(last.log, LAMBDA e : e.phase = "stab" /\ e.it = it), 1)

\* C11: the projections of a tick are its stabilization projections
\* followed by those of the main solver pass; the stabilization projections
\* are at most STABILIZATION_ITERATIONS passes over the STABILIZATION list
\* that discovery made, each in list order, and the main solver pass
\* projects no constraint of the STABILIZATION group, in either solver mode.
C11_StabilizationBeforeMain ==
    last.op = "tick" =>
        /\ last.log = StabLog \o MainLog
        /\ \A a \in 1..Len(StabLog) :
              /\ StabLog[a].g = STABILIZATION
              /\ StabLog[a].it \in 0..(STABILIZATION_ITERATIONS - 1)
              /\ StabIds(StabLog[a].it) = Ids(TickList(STABILIZATION))
        /\ \A a \in 1..(Len(StabLog) - 1) : StabLog[a].it <= StabLog[a + 1].it
        /\ \A a \in 1..Len(MainLog) :
              /\ MainLog[a].g # STABILIZATION
              /\ \A k \in 1..Len(MainLog[a].ids) :
                    Count(Ids(TickList(STABILIZATION)), MainLog[a].ids[k]) = 0

\* a tick of the iterative stabilizing build that projected stabilization
\* constraints and then constraints of the main pass
C11_Witness ==
    /\ last.op = "tick"
    /\ iterative
    /\ Len(StabLog) > 0
    /\ Len(MainLog) > 0

\* what a tick may not change of a particle: its identity, inverse mass,
\* phase and body
ParticleFrame(q) == <<q.id, q.imass, q.ph, q.bod>>

\* what a tick may not change of a body: its identity, its particle
\* indices and its shape slot
BodyFrame(b) == <<b.id, b.particles, b.shape>>

\* C12: a tick leaves the number and order of the particles and of the
\* bodies, every particle's imass, phase and bod, every body's particle
\* index list and shape slot, and the constraints, in order, of every list
\* of m_globalConstraints as they were.
C12_TickFrame ==
    last.op = "tick" =>
        /\ Len(m_particles) = Len(last.before.ps)
        /\ \A k \in 1..Len(m_particles) :
              ParticleFrame(m_particles[k]) = ParticleFrame(last.before.ps[k])
        /\ Len(m_bodies) = Len(last.before.bodies)
        /\ \A k \in 1..Len(m_bodies) :
              BodyFrame(m_bodies[k]) = BodyFrame(last.before.bodies[k])
        /\ \A g \in (DOMAIN m_globalConstraints)
                    \cup (DOMAIN last.before.gc)
                    \cup (0..(NUM_CONSTRAINT_GROUPS - 1)) :
              HashGet(m_globalConstraints, g) = HashGet(last.before.gc, g)

\* a tick that moved a particle of a scene with bodies and STANDARD
\* constraints, and whose gathering inserted keys into m_globalConstraints
C12_Witness ==
    /\ last.op = "tick"
    /\ Len(m_bodies) > 0
    /\ Len(HashGet(m_globalConstraints, STANDARD)) > 0
    /\ DOMAIN m_globalConstraints # DOMAIN last.before.gc
    /\ \E k \in 1..Len(m_particles) : m_particles[k].p # last.before.ps[k].p

\* the index lists the construction calls stored: one per body, then one per
\* fluid or gas constraint of the STANDARD group
DensityConstraints ==
    SelectSeq(HashGet(m_globalConstraints, STANDARD),
              LAMBDA c : c.kind \in {"TotalFluid", "Gas"})

IndexLists ==
    [k \in 1..Len(m_bodies) |-> m_bodies[k].particles]
    \o [k \in 1..Len(DensityConstraints) |-> DensityConstraints[k].idx]

SeqSet(s) == {s[k] : k \in 1..Len(s)}

\* the index list the last construction call stored
LastIndexList ==
    IF last.op = "createRigidBody" THEN m_bodies[Len(m_bodies)].particles
    ELSE DensityConstraints[Len(DensityConstraints)].idx

\* C13: while no construction call has failed, every index a body or a
\* fluid or gas constraint stores is a valid index of the particle list, no
\* index is stored twice, in one list or in two, the particles of the body
\* at position k have bod = k, phase SOLID and a non-zero inverse mass, and
\* the indices the last call stored are those of the particles it appended,
\* vertex by vertex.
C13_IndicesDenoteOwnParticles ==
    ~exited =>
        LET L == IndexLists
        IN /\ \A a \in 1..Len(L) :
                 /\ \A k \in 1..Len(L[a]) :
                       L[a][k] \in 0..(Len(m_particles) - 1)
                 /\ Cardinality(SeqSet(L[a])) = Len(L[a])
                 /\ \A b \in (a + 1)..Len(L) :
                       SeqSet(L[a]) \cap SeqSet(L[b]) = {}
           /\ \A k \in 1..Len(m_bodies) :
                 \A i \in SeqSet(m_bodies[k].particles) :
                    /\ At(m_particles, i).bod = k - 1
                    /\ At(m_particles, i).ph = "SOLID"
                    /\ At(m_particles, i).imass # 0
           /\ last.op \in CreateOps =>
                 LET own == LastIndexList
                     n0 == Len(last.before.ps)
                 IN /\ Len(own) = Len(last.verts)
                    /\ Len(m_particles) = n0 + Len(own)
                    /\ \A k \in 1..Len(own) :
                          /\ own[k] = n0 + k - 1
                          /\ At(m_particles, own[k]).p = last.verts[k].p
                          /\ At(m_particles, own[k]).imass
                                 = last.verts[k].imass
                    /\ \A k \in 1..n0 : m_particles[k] = last.before.ps[k]

\* a successful construction call on a scene that already holds a body, a
\* fluid constraint and particles of no body
C13_Witness ==
    /\ ~exited
    /\ last.op \in CreateOps
    /\ Len(last.before.bodies) > 0
    /\ Len(IndexLists) >= 3
    /\ Len(m_particles) > Cardinality(UNION {SeqSet(IndexLists[a]) :
                                                a \in 1..Len(IndexLists)})

\* the identities of the particles, bodies and persistent global constraints
\* of a simulation, one entry for each place an object is stored in
StoredIn(gc, g) == Ids(HashGet(gc, g))

GlobalIds(gc) ==
    StoredIn(gc, STABILIZATION) \o StoredIn(gc, CONTACT)
    \o StoredIn(gc, STANDARD) \o StoredIn(gc, SHAPE)

SceneIds(S) == Ids(S.ps) \o Ids(S.bodies) \o GlobalIds(S.gc)

\* the map with the constraints of its STANDARD list stored under group g
\* as well
AlsoUnder(gc, g) ==
    [k \in (DOMAIN gc) \cup {g} |->
        IF k = g THEN HashGet(gc, g) \o HashGet(gc, STANDARD) ELSE gc[k]]

\* clearing the map empties every list and deletes each constraint once
ClearsGlobals(gc) ==
    LET R == ClearGlobals(gc, 0, <<>>)
    IN /\ \A g \in (DOMAIN R.gc) \cup (0..(NUM_CONSTRAINT_GROUPS - 1)) :
             HashGet(R.gc, g) = <<>>
       /\ \A id \in SeqSet(GlobalIds(gc)) : Count(R.freed, id) = 1
       /\ SeqSet(R.freed) = SeqSet(GlobalIds(gc))

\* C14: init called on a running scene leaves, before it builds the new
\* scene, no particle, no body and an empty list for every group; clear has
\* deleted every particle, body and persistent global constraint of the old
\* scene once and nothing else, also were the STANDARD constraints stored
\* under a second group; and the new scene holds no object of the old one.
C14_ClearDeletesOnce ==
    last.op = "reinit" =>
        LET old == SceneIds(last.before)
        IN /\ last.cleared.ps = <<>>
           /\ last.cleared.bodies = <<>>
           /\ \A g \in (DOMAIN last.cleared.gc)
                       \cup (0..(NUM_CONSTRAINT_GROUPS - 1)) :
                 HashGet(last.cleared.gc, g) = <<>>
           /\ \A id \in SeqSet(old) : Count(last.freed, id) = 1
           /\ Len(last.freed) = Len(old)
           /\ ClearsGlobals(last.before.gc)
           /\ \A g \in (0..(NUM_CONSTRAINT_GROUPS - 1)) \ {STANDARD} :
                 ClearsGlobals(AlsoUnder(last.before.gc, g))
           /\ SeqSet(SceneIds(Sim)) \cap SeqSet(old) = {}
           /\ \A k \in 1..Len(m_bodies) :
                 m_bodies[k].shape.id \notin SeqSet(old)

\* init called after a frame of a scene that held particles, bodies and
\* STANDARD constraints, building a scene that holds all three again
C14_Witness ==
    /\ last.op = "reinit"
    /\ nTicks > 0
    /\ Len(last.before.ps) > 0
    /\ Len(last.before.bodies) > 0
    /\ Len(HashGet(last.before.gc, STANDARD)) > 1
    /\ Len(m_particles) > 0
    /\ Len(m_bodies) > 0
    /\ Len(HashGet(m_globalConstraints, STANDARD)) > 0

=============================================================================
